---- MODULE Spec2Model ----
(***************************************************************************)
(* A model of the OliveYoung ranking scraper (src/app.py): title cleaning, *)
(* stable keys, the acquisition run of main() and the day-over-day diff of *)
(* build_slack_message_kor / analyze_trends; with the scroll loops and the *)
(* extraction loop of src/integrated_scraper.py and src/oliveyoung.py.     *)
(*                                                                         *)
(* Text is a sequence of one-character strings.  TLA+ strings are ASCII,   *)
(* so a Korean syllable of the source is one character with a bracketed    *)
(* romanised name: "<teuk>" "<ga>" is the two-character keyword of         *)
(* app.py:89 written there in Hangul.  Python's None is the value None     *)
(* (for text) and NoRank (for integers).                                   *)
(***************************************************************************)
EXTENDS Integers, Sequences, FiniteSets, TLC

VARIABLES
    \* --- clean_title applied once and twice (specification SpecTitle)
    tpc, raw_title, once_title, twice_title,
    \* --- the diff functions applied to two item lists (specification SpecDiff)
    dpc, d_today, d_prev, d_report, d_trend,
    \* --- one run of main() (specification Spec)
    pc,              \* where main() is
    cand,            \* the candidate try_http_candidates is at (0: not probing)
    main_items,      \* main's items: [none, list]
    items_filled,    \* the ranked snapshot
    main_prev,       \* main's prev_items: [none, list]
    local_files,     \* the rankings directory: a set of [name, rows]
    drive_files,     \* the Drive folder: files in creation order, [name, rows]
    slack_calls,     \* the texts handed to send_slack_text, by kind
    exit_code,       \* main's return value (Running until it returns)
    drive_on,        \* a Drive service was built and GDRIVE_FOLDER_ID is set
    playwright,      \* PLAYWRIGHT_AVAILABLE
    \* history of the run
    probe_result, fallback_result, writes, calls,
    requested,       \* the candidates requested so far: [target, outcome]
    last_kind,       \* how the last requested candidate answered
    prev_lookup,     \* how the previous snapshot was found
    render_attempts, \* navigate-and-extract sequences of try_playwright_render
    \* --- the rank assignment on its own (specification SpecRank)
    rpc, ranked_given, ranked_in, ranked_out,
    \* --- key resolution on its own (specification SpecKey)
    kpc, k_a, k_b, key_a, key_b,
    \* --- the scripts run one after another in one working directory
    \*     (specification SpecPipeline)
    ppc, workdir, main_success, app_result, files_exist, latest_file,
    \* --- price extraction on its own (specification SpecPrice)
    vpc, price_path, json_raw, html_raw, price_entry,
    \* --- parse_won_to_int on its own (specification SpecWon)
    wpc, won_text, won_value,
    \* --- one element of a page parsed on its own (specification SpecElement)
    epc, e_el, e_entry,
    \* --- the scroll loops (specification SpecScroll)
    spc, s_fn, s_last_height, s_rounds, s_iter, s_stable, s_late,
    \* --- scrape_oliveyoung of integrated_scraper.py (specification SpecIntegrated)
    ipc, i_cards, i_products, i_env, i_calls, i_message

titleVars == <<tpc, raw_title, once_title, twice_title>>
diffVars == <<dpc, d_today, d_prev, d_report, d_trend>>
mainVars == <<pc, cand, main_items, items_filled, main_prev, local_files, drive_files,
              slack_calls, exit_code, drive_on, playwright,
              probe_result, fallback_result, writes, calls, requested, last_kind,
              prev_lookup, render_attempts>>
rankVars == <<rpc, ranked_given, ranked_in, ranked_out>>
keyVars == <<kpc, k_a, k_b, key_a, key_b>>
pipeVars == <<ppc, workdir, main_success, app_result, files_exist, latest_file>>
priceVars == <<vpc, price_path, json_raw, html_raw, price_entry>>
wonVars == <<wpc, won_text, won_value>>
elemVars == <<epc, e_el, e_entry>>
scrollVars == <<spc, s_fn, s_last_height, s_rounds, s_iter, s_stable, s_late>>
integVars == <<ipc, i_cards, i_products, i_env, i_calls, i_message>>
vars == <<titleVars, diffVars, mainVars, rankVars, keyVars, pipeVars, priceVars, wonVars,
     elemVars,
     scrollVars,
     integVars>>

\* the variables a specification leaves alone
notTitle ==
    <<diffVars, mainVars, rankVars, keyVars, pipeVars, priceVars, wonVars,
     elemVars,
     scrollVars,
     integVars>>
notDiff ==
    <<titleVars, mainVars, rankVars, keyVars, pipeVars, priceVars, wonVars,
     elemVars,
     scrollVars,
     integVars>>
notMain ==
    <<titleVars, diffVars, rankVars, keyVars, pipeVars, priceVars, wonVars,
     elemVars,
     scrollVars,
     integVars>>
notRank ==
    <<titleVars, diffVars, mainVars, keyVars, pipeVars, priceVars, wonVars,
     elemVars,
     scrollVars,
     integVars>>
notPipe ==
    <<titleVars, diffVars, mainVars, rankVars, keyVars, priceVars, wonVars,
     elemVars,
     scrollVars,
     integVars>>
notPrice ==
    <<titleVars, diffVars, mainVars, rankVars, keyVars, pipeVars, wonVars,
     elemVars,
     scrollVars,
     integVars>>
notWon == <<titleVars, diffVars, mainVars, rankVars, keyVars, pipeVars, priceVars,
     elemVars,
     scrollVars,
     integVars>>
notKey ==
    <<titleVars, diffVars, mainVars, rankVars, pipeVars, priceVars, wonVars,
     elemVars,
     scrollVars,
     integVars>>

notElem ==
    <<titleVars, diffVars, mainVars, rankVars, keyVars, pipeVars, priceVars, wonVars,
     scrollVars,
     integVars>>

notScroll ==
    <<titleVars, diffVars, mainVars, rankVars, keyVars, pipeVars, priceVars, wonVars, elemVars,
     integVars>>

notInteg ==
    <<titleVars, diffVars, mainVars, rankVars, keyVars, pipeVars, priceVars, wonVars, elemVars, scrollVars>>

----------------------------------------------------------------------------
(* Text helpers *)

None == <<"None">>          \* Python None where text is expected
NoRank == 0 - 1             \* Python None where an integer is expected
NoPrice == 0 - 1            \* Python None where a price is expected

\* the ASCII characters in the order of their codes; a control character
\* without an escape of its own, and the grave accent, are written "<0xNN>"
AsciiChars ==
    <<"<0x00>", "<0x01>", "<0x02>", "<0x03>", "<0x04>", "<0x05>", "<0x06>", "<0x07>",
     "<0x08>", "\t", "\n", "<vt>", "\f", "\r", "<0x0E>", "<0x0F>",
     "<0x10>", "<0x11>", "<0x12>", "<0x13>", "<0x14>", "<0x15>", "<0x16>", "<0x17>",
     "<0x18>", "<0x19>", "<0x1A>", "<0x1B>", "<0x1C>", "<0x1D>", "<0x1E>", "<0x1F>",
     " ", "!", "\"", "#", "$", "%", "&", "'",
     "(", ")", "*", "+", ",", "-", ".", "/",
     "0", "1", "2", "3", "4", "5", "6", "7",
     "8", "9", ":", ";", "<", "=", ">", "?",
     "@", "A", "B", "C", "D", "E", "F", "G",
     "H", "I", "J", "K", "L", "M", "N", "O",
     "P", "Q", "R", "S", "T", "U", "V", "W",
     "X", "Y", "Z", "[", "\\", "]", "^", "_",
     "<0x60>", "a", "b", "c", "d", "e", "f", "g",
     "h", "i", "j", "k", "l", "m", "n", "o",
     "p", "q", "r", "s", "t", "u", "v", "w",
     "x", "y", "z", "{", "|", "}", "~", "<0x7F>">>

IsAscii(c) == \E i \in 1..Len(AsciiChars) : AsciiChars[i] = c
chr(b) == AsciiChars[b + 1]
ord(c) == (CHOOSE i \in 1..Len(AsciiChars) : AsciiChars[i] = c) - 1

\* urllib.parse._hexdig
HexDigits ==
    <<"0", "1", "2", "3", "4", "5", "6", "7", "8", "9",
      "A", "B", "C", "D", "E", "F", "a", "b", "c", "d", "e", "f">>
\* the hexadecimal digits of n, at least width of them
RECURSIVE HexText(_, _)
HexText(n, width) ==
    IF n = 0 /\ width <= 0 THEN ""
    ELSE HexText(n \div 16, width - 1) \o HexDigits[(n % 16) + 1]

\* chr(cp): the ASCII character, or above 127 the name used here for the
\* character, or "<U+XXXX>"
Unichr(cp) ==
    CASE cp < 128 -> chr(cp)
      [] cp = 160 -> "<nbsp>"
      [] cp = 183 -> "<middot>"
      [] cp = 8211 -> "<en-dash>"
      [] cp = 8212 -> "<em-dash>"
      [] cp = 44032 -> "<ga>"
      [] cp = 44592 -> "<gi>"
      [] cp = 47532 -> "<ri>"
      [] cp = 48292 -> "<ben>"
      [] cp = 48624 -> "<byu>"
      [] cp = 49464 -> "<se>"
      [] cp = 50724 -> "<o>"
      [] cp = 51060 -> "<i>"
      [] cp = 53944 -> "<teu>"
      [] cp = 53945 -> "<teuk>"
      [] cp = 54925 -> "<hoek>"
      [] OTHER -> "<U+" \o HexText(cp, 4) \o ">"

\* the characters \s and str.strip() take, those of str.isspace(): the ASCII
\* ones (tab to carriage return, the four separators U+001C..U+001F, space),
\* next line, no-break space, ogham space mark, the spaces U+2000..U+200A,
\* line and paragraph separator, narrow no-break space, medium mathematical
\* space, ideographic space
Whitespace ==
    {"\t", "\n", "<vt>", "\f", "\r", "<0x1C>",
     "<0x1D>", "<0x1E>", "<0x1F>", " ", "<U+0085>", "<nbsp>",
     "<U+1680>", "<U+2000>", "<U+2001>", "<U+2002>", "<U+2003>", "<U+2004>",
     "<U+2005>", "<U+2006>", "<U+2007>", "<U+2008>", "<U+2009>", "<U+200A>",
     "<U+2028>", "<U+2029>", "<U+202F>", "<U+205F>", "<U+3000>"}
IsSpace(c) == c \in Whitespace

Drop(s, n) == SubSeq(s, n + 1, Len(s))

\* not s  (None and "" are falsy)
Truthy(s) == s # None /\ s # <<>>

\* a or b
Or(a, b) == IF Truthy(a) THEN a ELSE b

\* first position >= i that is past the end or not whitespace (regex \s*)
SkipSpaces(s, i) ==
    LET stops == {j \in i..Len(s) : ~IsSpace(s[j])}
    IN  IF stops = {} THEN Len(s) + 1
        ELSE CHOOSE j \in stops : \A k \in stops : j <= k

\* str.strip()
Strip(s) ==
    LET keep == {j \in 1..Len(s) : ~IsSpace(s[j])}
    IN  IF keep = {} THEN <<>>
        ELSE LET lo == CHOOSE j \in keep : \A k \in keep : j <= k
                 hi == CHOOSE j \in keep : \A k \in keep : j >= k
             IN  SubSeq(s, lo, hi)

\* re.sub(r'\s+', ' ', s): every run of whitespace becomes one space
CollapseSpaces(s) ==
    LET kept == {j \in 1..Len(s) : ~IsSpace(s[j]) \/ j = 1 \/ ~IsSpace(s[j - 1])}
        F[n \in 0..Len(s)] ==
            IF n = 0 THEN <<>>
            ELSE IF n \in kept
                 THEN Append(F[n - 1], IF IsSpace(s[n]) THEN " " ELSE s[n])
                 ELSE F[n - 1]
    IN  F[Len(s)]

\* re.IGNORECASE on a str pattern: the letter of the pattern that c matches.
\* Besides the two cases of a letter, I is matched by U+0130 (capital I with
\* dot above) and U+0131 (dotless i), and K by U+212A (kelvin sign); the
\* other characters of the pattern of app.py:89 have no second case.
Upper(c) ==
    CASE c = "p" -> "P"
      [] c \in {"i", "<U+0130>", "<U+0131>"} -> "I"
      [] c = "c" -> "C"
      [] c \in {"k", "<U+212A>"} -> "K"
      [] OTHER -> c

\* does word w (given in upper case) occur in s at position i, ignoring case
MatchAt(s, i, w) ==
    /\ i + Len(w) - 1 <= Len(s)
    /\ \A j \in 1..Len(w) : Upper(s[i + j - 1]) = w[j]

----------------------------------------------------------------------------
(* clean_title, app.py:83-91 *)

SegMax == 40
MAX_ITEMS == 100

KwReviewEvent == <<"<ri>", "<byu>", " ", "<i>", "<ben>", "<teu>">>
KwPick == <<"P", "I", "C", "K">>
KwOteuk == <<"<o>", "<teuk>">>
KwEvent == <<"<i>", "<ben>", "<teu>">>
KwTeukga == <<"<teuk>", "<ga>">>

\* the alternatives of the keyword group that are plain words, in order
PromoWords == <<KwReviewEvent, KwPick, KwOteuk, KwEvent, KwTeukga>>

Separators == {":", "-", "<en-dash>", "<em-dash>"}

\* one group \[[^\]]*\]\s* at i: the position after it, or i when none
BracketGroupEnd(s, i) ==
    IF i <= Len(s) /\ s[i] = "[" /\ \E j \in (i + 1)..Len(s) : s[j] = "]"
    THEN LET close == CHOOSE j \in (i + 1)..Len(s) :
                         /\ s[j] = "]"
                         /\ \A k \in (i + 1)..(j - 1) : s[k] # "]"
         IN  SkipSpaces(s, close + 1)
    ELSE i

RECURSIVE BracketGroups(_, _)
BracketGroups(s, i) ==
    LET e == BracketGroupEnd(s, i)
    IN  IF e = i THEN i ELSE BracketGroups(s, e)

\* re.sub(r'^\s*(?:\[[^\]]*\]\s*)+', '', s)
StripBracketTags(s) ==
    LET i0 == SkipSpaces(s, 1)
        e == BracketGroups(s, i0)
    IN  IF e = i0 THEN s ELSE Drop(s, e - 1)

\* one group [^|\n]{1,40}\|\s* starting exactly at i: the position after it,
\* or i when there is none
BarSegmentEnd(s, i) ==
    LET bars == {j \in i..Len(s) : s[j] = "|"}
    IN  IF bars = {} THEN i
        ELSE LET b == CHOOSE j \in bars : \A k \in bars : j <= k
             IN  IF b - i >= 1 /\ b - i <= SegMax /\ \A k \in i..(b - 1) : s[k] # "\n"
                 THEN SkipSpaces(s, b + 1)
                 ELSE i

RECURSIVE BarSegments(_, _)
BarSegments(s, i) ==
    LET e == BarSegmentEnd(s, i)
    IN  IF e = i THEN i ELSE BarSegments(s, e)

\* re.sub(r'^\s*([^|\n]{1,40}\|\s*)+', '', s).  The leading \s* is greedy and
\* gives whitespace back only while the first group cannot match: when the
\* first bar follows the leading whitespace directly, the last whitespace
\* character serves as the group's text, unless it is a line feed.
StripBarSegments(s) ==
    LET i0 == SkipSpaces(s, 1)
        first == IF BarSegmentEnd(s, i0) # i0 THEN i0
                 ELSE IF i0 > 1 /\ i0 <= Len(s) /\ s[i0] = "|" /\ s[i0 - 1] # "\n"
                      THEN i0 - 1
                 ELSE 0
    IN  IF first = 0 THEN s
        ELSE Drop(s, BarSegments(s, first) - 1)

\* the keyword group at i: the position after the keyword, or i when no
\* alternative matches.  The last alternative [^\s]*PICK is greedy: it ends
\* at the last PICK of the run of non-whitespace that starts at i.
PromoKeywordEnd(s, i) ==
    LET hits == {n \in 1..Len(PromoWords) : MatchAt(s, i, PromoWords[n])}
        runEnd == LET sp == {j \in i..Len(s) : IsSpace(s[j])}
                  IN  IF sp = {} THEN Len(s)
                      ELSE (CHOOSE j \in sp : \A k \in sp : j <= k) - 1
        picks == {j \in i..runEnd : MatchAt(s, j, KwPick) /\ j + 3 <= runEnd}
    IN  IF hits # {}
        THEN i + Len(PromoWords[CHOOSE n \in hits : \A m \in hits : n <= m])
        ELSE IF picks # {}
             THEN (CHOOSE j \in picks : \A k \in picks : j >= k) + 4
             ELSE i

\* re.sub(r'^\s*(kw)\s*[:\-...]?\s*', '', s, flags=re.IGNORECASE): one keyword,
\* at most one separator
StripPromoKeyword(s) ==
    LET i0 == SkipSpaces(s, 1)
        k == PromoKeywordEnd(s, i0)
        a == SkipSpaces(s, k)
        b == IF a <= Len(s) /\ s[a] \in Separators THEN a + 1 ELSE a
        c == SkipSpaces(s, b)
    IN  IF k = i0 THEN s ELSE Drop(s, c - 1)

clean_title(raw) ==
    IF ~Truthy(raw) THEN <<>>
    ELSE Strip(CollapseSpaces(
             StripPromoKeyword(StripBarSegments(StripBracketTags(Strip(raw))))))


----------------------------------------------------------------------------
(* Prices, app.py:60-71, 135-153, 203-215.  A price that is None is        *)
(* NoPrice.                                                                *)

\* \d: the decimal digits of Unicode (category Nd), which int() and float()
\* accept, in the order of their code points: one row of 0..9 for each script
DigitChars ==
    <<"0", "1", "2", "3", "4",
      "5", "6", "7", "8", "9",
      "<U+0660>", "<U+0661>", "<U+0662>", "<U+0663>", "<U+0664>",
      "<U+0665>", "<U+0666>", "<U+0667>", "<U+0668>", "<U+0669>",
      "<U+06F0>", "<U+06F1>", "<U+06F2>", "<U+06F3>", "<U+06F4>",
      "<U+06F5>", "<U+06F6>", "<U+06F7>", "<U+06F8>", "<U+06F9>",
      "<U+07C0>", "<U+07C1>", "<U+07C2>", "<U+07C3>", "<U+07C4>",
      "<U+07C5>", "<U+07C6>", "<U+07C7>", "<U+07C8>", "<U+07C9>",
      "<U+0966>", "<U+0967>", "<U+0968>", "<U+0969>", "<U+096A>",
      "<U+096B>", "<U+096C>", "<U+096D>", "<U+096E>", "<U+096F>",
      "<U+09E6>", "<U+09E7>", "<U+09E8>", "<U+09E9>", "<U+09EA>",
      "<U+09EB>", "<U+09EC>", "<U+09ED>", "<U+09EE>", "<U+09EF>",
      "<U+0A66>", "<U+0A67>", "<U+0A68>", "<U+0A69>", "<U+0A6A>",
      "<U+0A6B>", "<U+0A6C>", "<U+0A6D>", "<U+0A6E>", "<U+0A6F>",
      "<U+0AE6>", "<U+0AE7>", "<U+0AE8>", "<U+0AE9>", "<U+0AEA>",
      "<U+0AEB>", "<U+0AEC>", "<U+0AED>", "<U+0AEE>", "<U+0AEF>",
      "<U+0B66>", "<U+0B67>", "<U+0B68>", "<U+0B69>", "<U+0B6A>",
      "<U+0B6B>", "<U+0B6C>", "<U+0B6D>", "<U+0B6E>", "<U+0B6F>",
      "<U+0BE6>", "<U+0BE7>", "<U+0BE8>", "<U+0BE9>", "<U+0BEA>",
      "<U+0BEB>", "<U+0BEC>", "<U+0BED>", "<U+0BEE>", "<U+0BEF>",
      "<U+0C66>", "<U+0C67>", "<U+0C68>", "<U+0C69>", "<U+0C6A>",
      "<U+0C6B>", "<U+0C6C>", "<U+0C6D>", "<U+0C6E>", "<U+0C6F>",
      "<U+0CE6>", "<U+0CE7>", "<U+0CE8>", "<U+0CE9>", "<U+0CEA>",
      "<U+0CEB>", "<U+0CEC>", "<U+0CED>", "<U+0CEE>", "<U+0CEF>",
      "<U+0D66>", "<U+0D67>", "<U+0D68>", "<U+0D69>", "<U+0D6A>",
      "<U+0D6B>", "<U+0D6C>", "<U+0D6D>", "<U+0D6E>", "<U+0D6F>",
      "<U+0DE6>", "<U+0DE7>", "<U+0DE8>", "<U+0DE9>", "<U+0DEA>",
      "<U+0DEB>", "<U+0DEC>", "<U+0DED>", "<U+0DEE>", "<U+0DEF>",
      "<U+0E50>", "<U+0E51>", "<U+0E52>", "<U+0E53>", "<U+0E54>",
      "<U+0E55>", "<U+0E56>", "<U+0E57>", "<U+0E58>", "<U+0E59>",
      "<U+0ED0>", "<U+0ED1>", "<U+0ED2>", "<U+0ED3>", "<U+0ED4>",
      "<U+0ED5>", "<U+0ED6>", "<U+0ED7>", "<U+0ED8>", "<U+0ED9>",
      "<U+0F20>", "<U+0F21>", "<U+0F22>", "<U+0F23>", "<U+0F24>",
      "<U+0F25>", "<U+0F26>", "<U+0F27>", "<U+0F28>", "<U+0F29>",
      "<U+1040>", "<U+1041>", "<U+1042>", "<U+1043>", "<U+1044>",
      "<U+1045>", "<U+1046>", "<U+1047>", "<U+1048>", "<U+1049>",
      "<U+1090>", "<U+1091>", "<U+1092>", "<U+1093>", "<U+1094>",
      "<U+1095>", "<U+1096>", "<U+1097>", "<U+1098>", "<U+1099>",
      "<U+17E0>", "<U+17E1>", "<U+17E2>", "<U+17E3>", "<U+17E4>",
      "<U+17E5>", "<U+17E6>", "<U+17E7>", "<U+17E8>", "<U+17E9>",
      "<U+1810>", "<U+1811>", "<U+1812>", "<U+1813>", "<U+1814>",
      "<U+1815>", "<U+1816>", "<U+1817>", "<U+1818>", "<U+1819>",
      "<U+1946>", "<U+1947>", "<U+1948>", "<U+1949>", "<U+194A>",
      "<U+194B>", "<U+194C>", "<U+194D>", "<U+194E>", "<U+194F>",
      "<U+19D0>", "<U+19D1>", "<U+19D2>", "<U+19D3>", "<U+19D4>",
      "<U+19D5>", "<U+19D6>", "<U+19D7>", "<U+19D8>", "<U+19D9>",
      "<U+1A80>", "<U+1A81>", "<U+1A82>", "<U+1A83>", "<U+1A84>",
      "<U+1A85>", "<U+1A86>", "<U+1A87>", "<U+1A88>", "<U+1A89>",
      "<U+1A90>", "<U+1A91>", "<U+1A92>", "<U+1A93>", "<U+1A94>",
      "<U+1A95>", "<U+1A96>", "<U+1A97>", "<U+1A98>", "<U+1A99>",
      "<U+1B50>", "<U+1B51>", "<U+1B52>", "<U+1B53>", "<U+1B54>",
      "<U+1B55>", "<U+1B56>", "<U+1B57>", "<U+1B58>", "<U+1B59>",
      "<U+1BB0>", "<U+1BB1>", "<U+1BB2>", "<U+1BB3>", "<U+1BB4>",
      "<U+1BB5>", "<U+1BB6>", "<U+1BB7>", "<U+1BB8>", "<U+1BB9>",
      "<U+1C40>", "<U+1C41>", "<U+1C42>", "<U+1C43>", "<U+1C44>",
      "<U+1C45>", "<U+1C46>", "<U+1C47>", "<U+1C48>", "<U+1C49>",
      "<U+1C50>", "<U+1C51>", "<U+1C52>", "<U+1C53>", "<U+1C54>",
      "<U+1C55>", "<U+1C56>", "<U+1C57>", "<U+1C58>", "<U+1C59>",
      "<U+A620>", "<U+A621>", "<U+A622>", "<U+A623>", "<U+A624>",
      "<U+A625>", "<U+A626>", "<U+A627>", "<U+A628>", "<U+A629>",
      "<U+A8D0>", "<U+A8D1>", "<U+A8D2>", "<U+A8D3>", "<U+A8D4>",
      "<U+A8D5>", "<U+A8D6>", "<U+A8D7>", "<U+A8D8>", "<U+A8D9>",
      "<U+A900>", "<U+A901>", "<U+A902>", "<U+A903>", "<U+A904>",
      "<U+A905>", "<U+A906>", "<U+A907>", "<U+A908>", "<U+A909>",
      "<U+A9D0>", "<U+A9D1>", "<U+A9D2>", "<U+A9D3>", "<U+A9D4>",
      "<U+A9D5>", "<U+A9D6>", "<U+A9D7>", "<U+A9D8>", "<U+A9D9>",
      "<U+A9F0>", "<U+A9F1>", "<U+A9F2>", "<U+A9F3>", "<U+A9F4>",
      "<U+A9F5>", "<U+A9F6>", "<U+A9F7>", "<U+A9F8>", "<U+A9F9>",
      "<U+AA50>", "<U+AA51>", "<U+AA52>", "<U+AA53>", "<U+AA54>",
      "<U+AA55>", "<U+AA56>", "<U+AA57>", "<U+AA58>", "<U+AA59>",
      "<U+ABF0>", "<U+ABF1>", "<U+ABF2>", "<U+ABF3>", "<U+ABF4>",
      "<U+ABF5>", "<U+ABF6>", "<U+ABF7>", "<U+ABF8>", "<U+ABF9>",
      "<U+FF10>", "<U+FF11>", "<U+FF12>", "<U+FF13>", "<U+FF14>",
      "<U+FF15>", "<U+FF16>", "<U+FF17>", "<U+FF18>", "<U+FF19>",
      "<U+104A0>", "<U+104A1>", "<U+104A2>", "<U+104A3>", "<U+104A4>",
      "<U+104A5>", "<U+104A6>", "<U+104A7>", "<U+104A8>", "<U+104A9>",
      "<U+10D30>", "<U+10D31>", "<U+10D32>", "<U+10D33>", "<U+10D34>",
      "<U+10D35>", "<U+10D36>", "<U+10D37>", "<U+10D38>", "<U+10D39>",
      "<U+11066>", "<U+11067>", "<U+11068>", "<U+11069>", "<U+1106A>",
      "<U+1106B>", "<U+1106C>", "<U+1106D>", "<U+1106E>", "<U+1106F>",
      "<U+110F0>", "<U+110F1>", "<U+110F2>", "<U+110F3>", "<U+110F4>",
      "<U+110F5>", "<U+110F6>", "<U+110F7>", "<U+110F8>", "<U+110F9>",
      "<U+11136>", "<U+11137>", "<U+11138>", "<U+11139>", "<U+1113A>",
      "<U+1113B>", "<U+1113C>", "<U+1113D>", "<U+1113E>", "<U+1113F>",
      "<U+111D0>", "<U+111D1>", "<U+111D2>", "<U+111D3>", "<U+111D4>",
      "<U+111D5>", "<U+111D6>", "<U+111D7>", "<U+111D8>", "<U+111D9>",
      "<U+112F0>", "<U+112F1>", "<U+112F2>", "<U+112F3>", "<U+112F4>",
      "<U+112F5>", "<U+112F6>", "<U+112F7>", "<U+112F8>", "<U+112F9>",
      "<U+11450>", "<U+11451>", "<U+11452>", "<U+11453>", "<U+11454>",
      "<U+11455>", "<U+11456>", "<U+11457>", "<U+11458>", "<U+11459>",
      "<U+114D0>", "<U+114D1>", "<U+114D2>", "<U+114D3>", "<U+114D4>",
      "<U+114D5>", "<U+114D6>", "<U+114D7>", "<U+114D8>", "<U+114D9>",
      "<U+11650>", "<U+11651>", "<U+11652>", "<U+11653>", "<U+11654>",
      "<U+11655>", "<U+11656>", "<U+11657>", "<U+11658>", "<U+11659>",
      "<U+116C0>", "<U+116C1>", "<U+116C2>", "<U+116C3>", "<U+116C4>",
      "<U+116C5>", "<U+116C6>", "<U+116C7>", "<U+116C8>", "<U+116C9>",
      "<U+11730>", "<U+11731>", "<U+11732>", "<U+11733>", "<U+11734>",
      "<U+11735>", "<U+11736>", "<U+11737>", "<U+11738>", "<U+11739>",
      "<U+118E0>", "<U+118E1>", "<U+118E2>", "<U+118E3>", "<U+118E4>",
      "<U+118E5>", "<U+118E6>", "<U+118E7>", "<U+118E8>", "<U+118E9>",
      "<U+11950>", "<U+11951>", "<U+11952>", "<U+11953>", "<U+11954>",
      "<U+11955>", "<U+11956>", "<U+11957>", "<U+11958>", "<U+11959>",
      "<U+11C50>", "<U+11C51>", "<U+11C52>", "<U+11C53>", "<U+11C54>",
      "<U+11C55>", "<U+11C56>", "<U+11C57>", "<U+11C58>", "<U+11C59>",
      "<U+11D50>", "<U+11D51>", "<U+11D52>", "<U+11D53>", "<U+11D54>",
      "<U+11D55>", "<U+11D56>", "<U+11D57>", "<U+11D58>", "<U+11D59>",
      "<U+11DA0>", "<U+11DA1>", "<U+11DA2>", "<U+11DA3>", "<U+11DA4>",
      "<U+11DA5>", "<U+11DA6>", "<U+11DA7>", "<U+11DA8>", "<U+11DA9>",
      "<U+16A60>", "<U+16A61>", "<U+16A62>", "<U+16A63>", "<U+16A64>",
      "<U+16A65>", "<U+16A66>", "<U+16A67>", "<U+16A68>", "<U+16A69>",
      "<U+16AC0>", "<U+16AC1>", "<U+16AC2>", "<U+16AC3>", "<U+16AC4>",
      "<U+16AC5>", "<U+16AC6>", "<U+16AC7>", "<U+16AC8>", "<U+16AC9>",
      "<U+16B50>", "<U+16B51>", "<U+16B52>", "<U+16B53>", "<U+16B54>",
      "<U+16B55>", "<U+16B56>", "<U+16B57>", "<U+16B58>", "<U+16B59>",
      "<U+1D7CE>", "<U+1D7CF>", "<U+1D7D0>", "<U+1D7D1>", "<U+1D7D2>",
      "<U+1D7D3>", "<U+1D7D4>", "<U+1D7D5>", "<U+1D7D6>", "<U+1D7D7>",
      "<U+1D7D8>", "<U+1D7D9>", "<U+1D7DA>", "<U+1D7DB>", "<U+1D7DC>",
      "<U+1D7DD>", "<U+1D7DE>", "<U+1D7DF>", "<U+1D7E0>", "<U+1D7E1>",
      "<U+1D7E2>", "<U+1D7E3>", "<U+1D7E4>", "<U+1D7E5>", "<U+1D7E6>",
      "<U+1D7E7>", "<U+1D7E8>", "<U+1D7E9>", "<U+1D7EA>", "<U+1D7EB>",
      "<U+1D7EC>", "<U+1D7ED>", "<U+1D7EE>", "<U+1D7EF>", "<U+1D7F0>",
      "<U+1D7F1>", "<U+1D7F2>", "<U+1D7F3>", "<U+1D7F4>", "<U+1D7F5>",
      "<U+1D7F6>", "<U+1D7F7>", "<U+1D7F8>", "<U+1D7F9>", "<U+1D7FA>",
      "<U+1D7FB>", "<U+1D7FC>", "<U+1D7FD>", "<U+1D7FE>", "<U+1D7FF>",
      "<U+1E140>", "<U+1E141>", "<U+1E142>", "<U+1E143>", "<U+1E144>",
      "<U+1E145>", "<U+1E146>", "<U+1E147>", "<U+1E148>", "<U+1E149>",
      "<U+1E2F0>", "<U+1E2F1>", "<U+1E2F2>", "<U+1E2F3>", "<U+1E2F4>",
      "<U+1E2F5>", "<U+1E2F6>", "<U+1E2F7>", "<U+1E2F8>", "<U+1E2F9>",
      "<U+1E950>", "<U+1E951>", "<U+1E952>", "<U+1E953>", "<U+1E954>",
      "<U+1E955>", "<U+1E956>", "<U+1E957>", "<U+1E958>", "<U+1E959>",
      "<U+1FBF0>", "<U+1FBF1>", "<U+1FBF2>", "<U+1FBF3>", "<U+1FBF4>",
      "<U+1FBF5>", "<U+1FBF6>", "<U+1FBF7>", "<U+1FBF8>", "<U+1FBF9>">>
DigitSet == {DigitChars[n] : n \in 1..Len(DigitChars)}
IsDigit(c) == c \in DigitSet
DigitValue(c) == ((CHOOSE n \in 1..Len(DigitChars) : DigitChars[n] = c) - 1) % 10

\* the digits of "0123456789"
IsAsciiDigit(c) == c \in {"0", "1", "2", "3", "4", "5", "6", "7", "8", "9"}

\* int() of a text of digits
RECURSIVE DigitsToInt(_)
DigitsToInt(ds) ==
    IF ds = <<>> THEN 0
    ELSE 10 * DigitsToInt(SubSeq(ds, 1, Len(ds) - 1)) + DigitValue(ds[Len(ds)])

\* [\d,]
IsWonChar(c) == IsDigit(c) \/ c = ","

\* app.py:60-71: the first run of digits and commas, commas removed; a run
\* of commas alone makes int() raise, which is caught
parse_won_to_int(s) ==
    IF ~Truthy(s) THEN NoPrice
    ELSE LET hits == {i \in 1..Len(s) : IsWonChar(s[i])}
         IN  IF hits = {} THEN NoPrice
             ELSE LET first == CHOOSE i \in hits : \A j \in hits : i <= j
                      stops == {i \in first..Len(s) : ~IsWonChar(s[i])}
                      last == IF stops = {} THEN Len(s)
                              ELSE (CHOOSE i \in stops : \A j \in stops : i <= j) - 1
                      digits == SelectSeq(SubSeq(s, first, last), IsDigit)
                  IN  IF digits = <<>> THEN NoPrice ELSE DigitsToInt(digits)

\* the percents k for which the double arithmetic int(k / 100 * 100) gives
\* k - 1: the quotient is rounded to a double below k / 100 and the product
\* stays below k
FloatShort == {29, 57, 58}

\* int((original_price - sale_price) / original_price * 100) in double
\* arithmetic: the floor of the exact percentage, except that an exact
\* percentage in FloatShort comes out one lower
FloatPct(original_price, sale_price) ==
    LET d == original_price - sale_price
        f == (100 * d) \div original_price
    IN  IF (100 * d) % original_price = 0 /\ f \in FloatShort THEN f - 1 ELSE f

\* a price that is neither None nor 0
TruthyPrice(p) == p # NoPrice /\ p # 0

\* app.py:150-153, 213-215
discount_pct(original_price, sale_price) ==
    IF TruthyPrice(original_price) /\ TruthyPrice(sale_price)
       /\ original_price > sale_price
    THEN FloatPct(original_price, sale_price)
    ELSE NoPrice

PriceEntry(original_price, sale_price) ==
    [original_price |-> original_price, sale_price |-> sale_price,
     discount_pct |-> discount_pct(original_price, sale_price)]

\* str(v) if v is not None else ""
StrOrEmpty(v) == IF v = None THEN <<>> ELSE v

\* app.py:203-206, 213-224: the price fields of an element of a structured
\* response
JsonPrices(it) ==
    LET sale_val == Or(Or(Or(it.price, it.salePrice), it.onlinePrice), it.finalPrice)
        org_val == Or(Or(it.orgPrice, it.originalPrice), it.listPrice)
    IN  PriceEntry(parse_won_to_int(StrOrEmpty(org_val)),
                   parse_won_to_int(StrOrEmpty(sale_val)))

\* el.select_one(a) or el.select_one(b): a node found is truthy
FirstNode(a, b) == IF a # None THEN a ELSE b

\* node.get_text(strip=True) of a node that holds one text (None: no node)
NodeStripped(t) == IF t = None THEN None ELSE Strip(t)

\* app.py:135-138, 150-163: the price fields of an element of a page; a field
\* of el is the text of the node of that selector (None: no node)
HtmlPrices(el) ==
    PriceEntry(
        parse_won_to_int(StrOrEmpty(NodeStripped(FirstNode(el.tx_org_num, el.tx_org)))),
        parse_won_to_int(StrOrEmpty(NodeStripped(FirstNode(el.tx_cur_num, el.tx_cur)))))

----------------------------------------------------------------------------
(* extract_brand_from_name, app.py:93-102                                  *)

\* [\s<middot>\-<en-dash><em-dash>\/\\\|,]
BrandSeparators ==
    Whitespace \cup {"<middot>", "-", "<en-dash>", "<em-dash>", "/", "\\", "|", ","}

\* re.split: the text before the first separator at or after i
PartFrom(s, i) ==
    LET seps == {j \in i..Len(s) : s[j] \in BrandSeparators}
        stop == IF seps = {} THEN Len(s) + 1 ELSE CHOOSE j \in seps : \A k \in seps : j <= k
    IN  SubSeq(s, i, stop - 1)

\* the position after the run of separators that starts at i
AfterSeparators(s, i) ==
    LET rest == {j \in i..Len(s) : s[j] \notin BrandSeparators}
    IN  IF rest = {} THEN Len(s) + 1 ELSE CHOOSE j \in rest : \A k \in rest : j <= k

\* re.match(r'^\d|\+|<se><teu>|<gi><hoek>', cand)
LooksLikeOffer(part) ==
    /\ part # <<>>
    /\ \/ IsDigit(part[1])
       \/ part[1] = "+"
       \/ part[1] = "<se>" /\ Len(part) > 1 /\ part[2] = "<teu>"
       \/ part[1] = "<gi>" /\ Len(part) > 1 /\ part[2] = "<hoek>"

extract_brand_from_name(name) ==
    IF ~Truthy(name) THEN <<>>
    ELSE LET first == PartFrom(name, 1)
             more == Len(first) < Len(name)
         IN  IF LooksLikeOffer(first) /\ more
             THEN PartFrom(name, AfterSeparators(name, Len(first) + 1))
             ELSE first

----------------------------------------------------------------------------
(* Stable keys, app.py:424-442.  A URL is the sequence of its characters.  *)
(* For brevity a fixed run of characters may be written as one element     *)
(* (DetailUrl, "goodsNo"); Flatten spells such elements out before a URL   *)
(* is parsed.                                                              *)

Origin == "https://www.oliveyoung.co.kr"
GoodsPath == "store/goods/getGoodsDetail.do"
DetailUrl == "https://www.oliveyoung.co.kr/store/goods/getGoodsDetail.do"

OriginChars ==
    <<"h", "t", "t", "p", "s", ":", "/", "/", "w", "w", "w", ".",
      "o", "l", "i", "v", "e", "y", "o", "u", "n", "g", ".", "c",
      "o", ".", "k", "r">>
GoodsPathChars ==
    <<"s", "t", "o", "r", "e", "/", "g", "o", "o", "d", "s", "/",
      "g", "e", "t", "G", "o", "o", "d", "s", "D", "e", "t", "a",
      "i", "l", ".", "d", "o">>

\* the characters of an element
Chars(t) ==
    CASE t = DetailUrl -> OriginChars \o <<"/">> \o GoodsPathChars
      [] t = Origin -> OriginChars
      [] t = GoodsPath -> GoodsPathChars
      [] t = "goodsNo" -> <<"g", "o", "o", "d", "s", "N", "o">>
      [] t = "dispCatNo" -> <<"d", "i", "s", "p", "C", "a", "t", "N", "o">>
      [] t = "top" -> <<"t", "o", "p">>
      [] t = "event" -> <<"e", "v", "e", "n", "t">>
      [] OTHER -> <<t>>

RECURSIVE Flatten(_)
Flatten(s) == IF s = <<>> THEN <<>> ELSE Chars(s[1]) \o Flatten(Tail(s))

IsHex(c) == \E i \in 1..Len(HexDigits) : HexDigits[i] = c
HexValue(c) ==
    LET i == CHOOSE j \in 1..Len(HexDigits) : HexDigits[j] = c
    IN  IF i > 16 THEN i - 7 ELSE i - 1

IsAsciiLetter(c) == IsAscii(c) /\ (ord(c) \in 65..90 \/ ord(c) \in 97..122)

\* urllib.parse.scheme_chars
IsSchemeChar(c) == IsAsciiLetter(c) \/ IsAsciiDigit(c) \/ c \in {"+", "-", "."}

\* urllib.parse._WHATWG_C0_CONTROL_OR_SPACE: the codes 0..32
C0ControlOrSpace == {AsciiChars[i] : i \in 1..33}

\* urllib.parse._UNSAFE_URL_BYTES_TO_REMOVE
UnsafeUrlChars == {"\t", "\r", "\n"}

\* str.find from position i on: the first position >= i of a character of
\* cs, or 0
Find(s, cs, i) ==
    IF \A j \in i..Len(s) : s[j] \notin cs THEN 0
    ELSE CHOOSE j \in i..Len(s) : s[j] \in cs /\ \A k \in i..(j - 1) : s[k] \notin cs

\* s.split(c)
RECURSIVE Split(_, _)
Split(s, c) ==
    IF Find(s, {c}, 1) = 0 THEN <<s>>
    ELSE <<SubSeq(s, 1, Find(s, {c}, 1) - 1)>> \o Split(Drop(s, Find(s, {c}, 1)), c)

\* ipaddress.IPv4Address._parse_octet does not raise
IsOctet(p) ==
    /\ Len(p) \in 1..3
    /\ \A i \in 1..Len(p) : IsAsciiDigit(p[i])
    /\ Len(p) > 1 => p[1] # "0"
    /\ DigitsToInt(p) <= 255

\* ipaddress.IPv4Address._ip_int_from_string, from the octets on
AreOctets(octets) == Len(octets) = 4 /\ \A i \in 1..4 : IsOctet(octets[i])

\* ipaddress.IPv4Address(s) does not raise
IsIPv4Address(s) == s # <<>> /\ Find(s, {"/"}, 1) = 0 /\ AreOctets(Split(s, "."))

\* ipaddress.IPv6Address._parse_hextet does not raise
IsHextet(p) == Len(p) \in 1..4 /\ \A i \in 1..Len(p) : IsHex(p[i])

\* ipaddress.IPv6Address._ip_int_from_string, from the parts on: at most
\* one "::" inside, a leading or trailing ":" only as part of it, and
\* hextets elsewhere
IsIPv6Parts(parts, skips) ==
    /\ Len(parts) <= 9
    /\ Cardinality(skips) <= 1
    /\ IF skips # {}
       THEN \E k \in skips :
              \E parts_hi \in {IF parts[1] = <<>> THEN k - 2 ELSE k - 1} :
                \E parts_lo \in {IF parts[Len(parts)] = <<>>
                                 THEN Len(parts) - k - 1 ELSE Len(parts) - k} :
                  /\ parts[1] = <<>> => parts_hi = 0
                  /\ parts[Len(parts)] = <<>> => parts_lo = 0
                  /\ 8 - (parts_hi + parts_lo) >= 1
                  /\ \A i \in 1..parts_hi : IsHextet(parts[i])
                  /\ \A i \in (Len(parts) - parts_lo + 1)..Len(parts) :
                        IsHextet(parts[i])
       ELSE /\ Len(parts) = 8
            /\ \A i \in 1..8 : IsHextet(parts[i])

\* the text split at ":": an IPv4-style suffix must be an IPv4 address and
\* counts as two hextets
IsIPv6Split(given) ==
    /\ Len(given) >= 3
    /\ IF Find(given[Len(given)], {"."}, 1) # 0
       THEN /\ IsIPv4Address(given[Len(given)])
            /\ IsIPv6Parts(SubSeq(given, 1, Len(given) - 1) \o <<<<"0">>, <<"0">>>>,
                           {i \in 2..Len(given) : given[i] = <<>>})
       ELSE IsIPv6Parts(given, {i \in 2..(Len(given) - 1) : given[i] = <<>>})

\* ipaddress.IPv6Address._ip_int_from_string does not raise
IsIPv6Text(a) == a # <<>> /\ IsIPv6Split(Split(a, ":"))

\* ipaddress.IPv6Address(h) does not raise: an optional scope follows "%"
IsIPv6Address(h) ==
    /\ Find(h, {"/"}, 1) = 0
    /\ IF Find(h, {"%"}, 1) = 0 THEN IsIPv6Text(h)
       ELSE /\ Find(h, {"%"}, 1) < Len(h)
            /\ Find(h, {"%"}, Find(h, {"%"}, 1) + 1) = 0
            /\ IsIPv6Text(SubSeq(h, 1, Find(h, {"%"}, 1) - 1))

\* re.match(r"\Av[a-fA-F0-9]+\..+\Z", h) for h that starts with "v": dot is
\* the first position after it that holds no hexadecimal digit
IsIPvFutureAt(h, dot) ==
    /\ dot >= 3
    /\ h[dot] = "."
    /\ dot < Len(h)
    /\ \A j \in (dot + 1)..Len(h) : h[j] # "\n"

IsIPvFuture(h) ==
    \E dot \in {j \in 2..Len(h) : ~IsHex(h[j]) /\ \A k \in 2..(j - 1) : IsHex(h[k])} :
        IsIPvFutureAt(h, dot)

\* urllib.parse._check_bracketed_host does not raise
BracketedHostOk(h) ==
    IF h # <<>> /\ h[1] = "v" THEN IsIPvFuture(h) ELSE IsIPv6Address(h)

\* url.lstrip(_WHATWG_C0_CONTROL_OR_SPACE)
LStripControls(c) ==
    IF \A j \in 1..Len(c) : c[j] \in C0ControlOrSpace THEN <<>>
    ELSE Drop(c, (CHOOSE j \in 1..Len(c) :
                     /\ c[j] \notin C0ControlOrSpace
                     /\ \A k \in 1..(j - 1) : c[k] \in C0ControlOrSpace) - 1)

\* url.replace(b, "") for the unsafe characters
IsSafeUrlChar(c) == c \notin UnsafeUrlChars
RemoveUnsafe(c) == SelectSeq(c, IsSafeUrlChar)

\* urlsplit: a scheme, letters first, ends at the first ":" and is taken off
HasScheme(c) ==
    /\ Find(c, {":"}, 1) > 1
    /\ IsAsciiLetter(c[1])
    /\ \A j \in 1..(Find(c, {":"}, 1) - 1) : IsSchemeChar(c[j])

DropScheme(c) == IF HasScheme(c) THEN Drop(c, Find(c, {":"}, 1)) ELSE c

\* urlsplit and _splitnetloc: after "//" the netloc runs up to the first of
\* "/", "?", "#"
HasNetloc(c) == Len(c) >= 2 /\ c[1] = "/" /\ c[2] = "/"

NetlocEnd(c) ==
    IF Find(c, {"/", "?", "#"}, 3) = 0 THEN Len(c) ELSE Find(c, {"/", "?", "#"}, 3) - 1

Netloc(c) == IF HasNetloc(c) THEN SubSeq(c, 3, NetlocEnd(c)) ELSE <<>>

AfterNetloc(c) == IF HasNetloc(c) THEN Drop(c, NetlocEnd(c)) ELSE c

\* netloc.partition('[')[2].partition(']')[0]
BracketedHost(netloc) ==
    IF Find(netloc, {"]"}, Find(netloc, {"["}, 1) + 1) = 0
    THEN Drop(netloc, Find(netloc, {"["}, 1))
    ELSE SubSeq(netloc, Find(netloc, {"["}, 1) + 1,
                Find(netloc, {"]"}, Find(netloc, {"["}, 1) + 1) - 1)

\* urlsplit raises ValueError: one bracket without the other, or a bracketed
\* host that is neither an IPv6 nor an IPvFuture address
NetlocRaises(netloc) ==
    IF Find(netloc, {"["}, 1) = 0 THEN Find(netloc, {"]"}, 1) # 0
    ELSE Find(netloc, {"]"}, 1) = 0 \/ ~BracketedHostOk(BracketedHost(netloc))

\* url.split('#', 1)[0]
BeforeFragment(c) ==
    IF Find(c, {"#"}, 1) = 0 THEN c ELSE SubSeq(c, 1, Find(c, {"#"}, 1) - 1)

\* url.split('?', 1)[1], "" without "?"
AfterMark(c) == IF Find(c, {"?"}, 1) = 0 THEN <<>> ELSE Drop(c, Find(c, {"?"}, 1))

\* the characters above 127 whose NFKC form holds one of / ? # @ :
NfkcDelimiterChars ==
    {"<U+2047>", "<U+2048>", "<U+2049>", "<U+2100>", "<U+2101>", "<U+2105>",
     "<U+2106>", "<U+2A74>", "<U+FE13>", "<U+FE16>", "<U+FE55>", "<U+FE56>",
     "<U+FE5F>", "<U+FE6B>", "<U+FF03>", "<U+FF0F>", "<U+FF1A>", "<U+FF1F>",
     "<U+FF20>"}

\* urllib.parse._checknetloc raises ValueError: the NFKC form of the netloc
\* holds a delimiter that the netloc does not
ChecknetlocRaises(netloc) == \E j \in 1..Len(netloc) : netloc[j] \in NfkcDelimiterChars

\* urlsplit once the url is cleaned and its scheme is off
SplitCleaned(c) ==
    IF NetlocRaises(Netloc(c)) \/ ChecknetlocRaises(Netloc(c)) THEN [raised |-> TRUE, query |-> <<>>]
    ELSE [raised |-> FALSE, query |-> AfterMark(BeforeFragment(AfterNetloc(c)))]

\* urlparse(u): [raised |-> a ValueError was raised, query |-> .query]
urlparse(u) == SplitCleaned(DropScheme(RemoveUnsafe(LStripControls(Flatten(u)))))

\* the number of bytes that follow the first byte b of a UTF-8 sequence
Utf8More(b) ==
    IF b \in 194..223 THEN 1
    ELSE IF b \in 224..239 THEN 2
    ELSE IF b \in 240..244 THEN 3
    ELSE 0

\* is bs[i] a byte that may follow at position i of the sequence bs starts
\* with: the range of the second byte depends on the first
Utf8Cont(bs, i) ==
    /\ i <= Len(bs)
    /\ IF i = 2
       THEN bs[i] \in (IF bs[1] = 224 THEN 160 ELSE IF bs[1] = 240 THEN 144 ELSE 128)
                      ..(IF bs[1] = 237 THEN 159 ELSE IF bs[1] = 244 THEN 143 ELSE 191)
       ELSE bs[i] \in 128..191

\* how many of the bytes that should follow do follow
Utf8Got(bs) ==
    IF ~(Utf8More(bs[1]) >= 1 /\ Utf8Cont(bs, 2)) THEN 0
    ELSE IF ~(Utf8More(bs[1]) >= 2 /\ Utf8Cont(bs, 3)) THEN 1
    ELSE IF ~(Utf8More(bs[1]) >= 3 /\ Utf8Cont(bs, 4)) THEN 2
    ELSE 3

\* the code point of a complete sequence at the head of bs
Utf8CodePoint(bs) ==
    CASE Utf8More(bs[1]) = 1 -> (bs[1] - 192) * 64 + (bs[2] - 128)
      [] Utf8More(bs[1]) = 2 ->
             (bs[1] - 224) * 4096 + (bs[2] - 128) * 64 + (bs[3] - 128)
      [] OTHER -> (bs[1] - 240) * 262144 + (bs[2] - 128) * 4096
                  + (bs[3] - 128) * 64 + (bs[4] - 128)

\* bytes.decode('utf-8', 'replace'): an ill-formed sequence becomes one
\* U+FFFD for its longest well-formed beginning
RECURSIVE Utf8Decode(_)
Utf8Decode(bs) ==
    IF bs = <<>> THEN <<>>
    ELSE IF bs[1] < 128 THEN <<chr(bs[1])>> \o Utf8Decode(Tail(bs))
    ELSE IF Utf8More(bs[1]) >= 1 /\ Utf8Got(bs) = Utf8More(bs[1])
         THEN <<Unichr(Utf8CodePoint(bs))>> \o Utf8Decode(Drop(bs, Utf8More(bs[1]) + 1))
         ELSE <<"<U+FFFD>">> \o Utf8Decode(Drop(bs, Utf8Got(bs) + 1))

\* urllib.parse.unquote_to_bytes of ASCII text: "%" and two hexadecimal
\* digits make one byte, any other "%" stays
RECURSIVE UnquoteToBytes(_)
UnquoteToBytes(s) ==
    IF s = <<>> THEN <<>>
    ELSE IF s[1] = "%" /\ Len(s) >= 3 /\ IsHex(s[2]) /\ IsHex(s[3])
         THEN <<16 * HexValue(s[2]) + HexValue(s[3])>> \o UnquoteToBytes(Drop(s, 3))
         ELSE <<ord(s[1])>> \o UnquoteToBytes(Tail(s))

\* the end of the run at the head of s of characters that are all ASCII or
\* all not
RunEnd(s) ==
    IF \A j \in 1..Len(s) : IsAscii(s[j]) = IsAscii(s[1]) THEN Len(s)
    ELSE (CHOOSE j \in 1..Len(s) :
             /\ IsAscii(s[j]) # IsAscii(s[1])
             /\ \A k \in 1..(j - 1) : IsAscii(s[k]) = IsAscii(s[1])) - 1

\* urllib.parse.unquote: each run of ASCII characters is decoded on its own
RECURSIVE UnquoteRuns(_, _)
UnquoteRuns(s, run) ==
    (IF IsAscii(s[1]) THEN Utf8Decode(UnquoteToBytes(SubSeq(s, 1, run)))
     ELSE SubSeq(s, 1, run))
    \o (IF run = Len(s) THEN <<>> ELSE UnquoteRuns(Drop(s, run), RunEnd(Drop(s, run))))

unquote(s) == IF Find(s, {"%"}, 1) = 0 THEN s ELSE UnquoteRuns(s, RunEnd(s))

\* s.replace('+', ' ')
PlusToSpace(s) == [j \in 1..Len(s) |-> IF s[j] = "+" THEN " " ELSE s[j]]

\* urllib.parse.parse_qsl keeps a field that has "=" and a value
IsPair(f) == Find(f, {"="}, 1) # 0 /\ Find(f, {"="}, 1) < Len(f)

\* the name or the value of a field, decoded
Decoded(s) == unquote(PlusToSpace(s))

\* urllib.parse.parse_qsl: the (name, value) pairs of the fields kept
Pairs(kept) ==
    [n \in 1..Len(kept) |->
        <<Decoded(SubSeq(kept[n], 1, Find(kept[n], {"="}, 1) - 1)),
          Decoded(Drop(kept[n], Find(kept[n], {"="}, 1)))>>]

parse_qsl(qs) == IF qs = <<>> THEN <<>> ELSE Pairs(SelectSeq(Split(qs, "&"), IsPair))

\* parse_qs(...).get("goodsNo", [""])[0]: the value of the first pair named
\* goodsNo
FirstGoodsNo(pairs) ==
    IF \A n \in 1..Len(pairs) : pairs[n][1] # Chars("goodsNo") THEN <<>>
    ELSE pairs[CHOOSE n \in 1..Len(pairs) :
                  /\ pairs[n][1] = Chars("goodsNo")
                  /\ \A m \in 1..(n - 1) : pairs[m][1] # Chars("goodsNo")][2]

\* app.py:430-433: "" when urlparse raises
QueryGoodsNo(parsed) ==
    IF parsed.raised THEN <<>> ELSE FirstGoodsNo(parse_qsl(parsed.query))

\* app.py:427-434
_oy_goodsno_from_url(u) == IF ~Truthy(u) THEN <<>> ELSE QueryGoodsNo(urlparse(u))

\* a key that prefers the name to the identifier
_oy_key_name_first(it) ==
    LET nm == Strip(Or(Or(it.name, it.raw_name), <<>>))
        g == _oy_goodsno_from_url(Strip(Or(it.url, <<>>)))
    IN  IF nm # <<>> THEN nm ELSE <<"g", ":">> \o g

_oy_key(it) ==
    LET u == Strip(Or(it.url, <<>>))
        g == _oy_goodsno_from_url(u)
    IN  IF g # <<>> THEN <<"g", ":">> \o g
        ELSE Strip(Or(Or(it.name, it.raw_name), <<>>))

\* _clean_text
_clean_text(s) == Strip(Or(s, <<>>))

----------------------------------------------------------------------------
(* Sequence helpers *)

\* the sequence <<f[lo], ..., f[hi]>>, built by halving
RECURSIVE Slice(_, _, _)
Slice(f, lo, hi) ==
    IF lo > hi THEN <<>>
    ELSE IF lo = hi THEN <<f[lo]>>
    ELSE LET mid == (lo + hi) \div 2
         IN  Slice(f, lo, mid) \o Slice(f, mid + 1, hi)

\* the elements s[i], lo <= i <= hi, with i \in keep, in order
RECURSIVE SelectRange(_, _, _, _)
SelectRange(s, lo, hi, keep) ==
    IF lo > hi THEN <<>>
    ELSE IF lo = hi THEN (IF lo \in keep THEN <<s[lo]>> ELSE <<>>)
    ELSE LET mid == (lo + hi) \div 2
         IN  SelectRange(s, lo, mid, keep) \o SelectRange(s, mid + 1, hi, keep)

SelectIdx(s, keep) == SelectRange(s, 1, Len(s), keep)

MapKeys(items) == Slice([i \in 1..Len(items) |-> _oy_key(items[i])], 1, Len(items))

\* the distinct non-empty elements of ks in order of first occurrence: the
\* iteration order of a dict filled from ks
DictOrder(ks) ==
    SelectIdx(ks, {i \in 1..Len(ks) :
                      ks[i] # <<>> /\ \A j \in 1..(i - 1) : ks[j] # ks[i]})

LastIdx(ks, k) == CHOOSE i \in 1..Len(ks) : ks[i] = k /\ \A j \in (i + 1)..Len(ks) : ks[j] # k

\* a < b for tuples of integers of equal length, lexicographically
RECURSIVE LexLess(_, _)
LexLess(a, b) ==
    IF a = <<>> THEN FALSE
    ELSE IF Head(a) # Head(b) THEN Head(a) < Head(b)
    ELSE LexLess(Tail(a), Tail(b))

\* list.sort(key=...): stable, ascending; keys[i] is the sort key of s[i]
SortByKeys(s, keys) ==
    LET n == Len(s)
        place == Slice([i \in 1..n |->
                     1 + Cardinality({j \in 1..n :
                             \/ LexLess(keys[j], keys[i])
                             \/ keys[j] = keys[i] /\ j < i})], 1, n)
    IN  Slice([p \in 1..n |-> s[CHOOSE i \in 1..n : place[i] = p]], 1, n)

Abs(x) == IF x < 0 THEN 0 - x ELSE x
Range(s) == {s[i] : i \in 1..Len(s)}
Take(s, n) == SubSeq(s, 1, IF Len(s) < n THEN Len(s) ELSE n)

\* int(x.get("rank") or 0)
IntOr0(r) == IF r = NoRank THEN 0 ELSE r

----------------------------------------------------------------------------
(* build_slack_message_kor, app.py:454-584: the lists the message is built *)
(* from.                                                                   *)

SurgeThreshold == 10
OutWindow == 100
LineCap == 5
TopLines == 10

\* prev_rank_map / today_key_rank: the rank of the last item with key k
RankOfKey(items, ks, k) == IntOr0(items[LastIdx(ks, k)].rank)

\* prev_url_map.get(k, ""): the url of the last item with key k that has one
UrlOfKey(items, ks, k) ==
    LET has == {i \in 1..Len(ks) : ks[i] = k /\ Truthy(items[i].url)}
    IN  IF has = {} THEN <<>>
        ELSE items[CHOOSE i \in has : \A j \in has : i >= j].url

\* today_key_url[k], today_key_name[k]
TodayUrl(items, ks, k) == Or(items[LastIdx(ks, k)].url, <<>>)
TodayName(items, ks, k) ==
    LET t == items[LastIdx(ks, k)] IN Or(Or(t.name, t.raw_name), <<>>)

\* app.py:524-537, one entry per key of today that has a previous rank
Mover(today, tks, prev, pks, k) ==
    LET cur == RankOfKey(today, tks, k)
        pr == RankOfKey(prev, pks, k)
    IN  [name |-> TodayName(today, tks, k), url |-> TodayUrl(today, tks, k),
         prev_rank |-> pr, rank |-> cur, change |-> pr - cur]

\* a riser test without the threshold
IsUpAnyChange(e) == e.change >= 0

\* a faller test without the threshold
IsDownAnyChange(e) == ~(e.change >= SurgeThreshold) /\ e.change < 0

IsUp(e) == e.change >= SurgeThreshold
IsDown(e) == ~IsUp(e) /\ e.change <= 0 - SurgeThreshold

UpKey(e) == <<0 - e.change, e.rank, e.prev_rank>>
DownKey(e) == <<0 - Abs(e.change), e.rank, e.prev_rank>>
RankKey(e) == <<e.rank>>

Movers(today, tks, prev, pks) ==
    LET order == DictOrder(tks)
        both == SelectIdx(order, {i \in 1..Len(order) : order[i] \in Range(pks)})
    IN  [i \in 1..Len(both) |-> Mover(today, tks, prev, pks, both[i])]

Ups(today, tks, prev, pks) ==
    LET ms == Movers(today, tks, prev, pks)
        ups == SelectIdx(ms, {i \in 1..Len(ms) : IsUp(ms[i])})
    IN  SortByKeys(ups, [i \in 1..Len(ups) |-> UpKey(ups[i])])

Downs(today, tks, prev, pks) ==
    LET ms == Movers(today, tks, prev, pks)
        downs == SelectIdx(ms, {i \in 1..Len(ms) : IsDown(ms[i])})
    IN  SortByKeys(downs, [i \in 1..Len(downs) |-> DownKey(downs[i])])

\* app.py:528-530: the keys of today without an entry in prev_rank_map
Newcomers(today, tks, prev, pks) ==
    LET order == DictOrder(tks)
        fresh == SelectIdx(order, {i \in 1..Len(order) : order[i] \notin Range(pks)})
        es == [i \in 1..Len(fresh) |->
                  [name |-> TodayName(today, tks, fresh[i]),
                   url |-> TodayUrl(today, tks, fresh[i]),
                   rank |-> RankOfKey(today, tks, fresh[i])]]
    IN  SortByKeys(es, [i \in 1..Len(es) |-> RankKey(es[i])])

\* app.py:539-545: the previous keys within the window that today lacks
IsOut(today, tks, prev, pks, k) ==
    LET pr == RankOfKey(prev, pks, k)
    IN  1 <= pr /\ pr <= OutWindow /\ k \notin Range(tks)

OutKeys(today, tks, prev, pks) ==
    LET order == DictOrder(pks)
    IN  SelectIdx(order, {i \in 1..Len(order) : IsOut(today, tks, prev, pks, order[i])})

\* app.py:543 passes the pair (next(...), "") to _clean_text, whose
\* (s or "").strip() then raises AttributeError: 'tuple' object has no
\* attribute 'strip'.  The loop raises at the first key that is out, before
\* any entry is appended, so a call that returns has no OUT entry.
OutNameRaises(k) == TRUE

Outs(today, tks, prev, pks) ==
    LET gone == OutKeys(today, tks, prev, pks)
    IN  IF gone # <<>> /\ OutNameRaises(gone[1])
        THEN [raised |-> TRUE, outs |-> <<>>]
        ELSE [raised |-> FALSE,
              outs |-> LET es == [i \in 1..Len(gone) |->
                                     [name |-> <<>>,
                                      url |-> UrlOfKey(prev, pks, gone[i]),
                                      rank |-> RankOfKey(prev, pks, gone[i])]]
                       IN  SortByKeys(es, [i \in 1..Len(es) |-> RankKey(es[i])])]

\* app.py:558-561
InoutCount(today, tks, prev, pks) ==
    LET today_top_keys == Range(Take(tks, OutWindow)) \ {<<>>}
        prev_top_keys == {k \in Range(pks) \ {<<>>} :
                             LET r == RankOfKey(prev, pks, k) IN r # 0 /\ r <= OutWindow}
    IN  Cardinality((today_top_keys \ prev_top_keys) \cup (prev_top_keys \ today_top_keys)) \div 2

\* app.py:499-519: the badge of one of the first ten items
Badge(t, prev, pks) ==
    LET k == _oy_key(t)
        cur == IntOr0(t.rank)
    IN  IF k # <<>> /\ k \in Range(pks)
        THEN LET pr == RankOfKey(prev, pks, k)
             IN  IF pr > 0 /\ cur < pr THEN [rank |-> cur, badge |-> "up", by |-> pr - cur]
                 ELSE IF pr > 0 /\ cur > pr THEN [rank |-> cur, badge |-> "down", by |-> cur - pr]
                 ELSE [rank |-> cur, badge |-> "-", by |-> 0]
        ELSE [rank |-> cur, badge |-> "new", by |-> 0]

AttributeError == [raised |-> TRUE, error |-> "AttributeError"]

build_slack_message_kor(today_items, prev_items) ==
    LET tks == MapKeys(today_items)
        pks == MapKeys(prev_items)
        ups == Ups(today_items, tks, prev_items, pks)
        downs == Downs(today_items, tks, prev_items, pks)
        newcomers == Newcomers(today_items, tks, prev_items, pks)
        outs == Outs(today_items, tks, prev_items, pks)
        top == Take(today_items, TopLines)
    IN  IF outs.raised THEN AttributeError
        ELSE
        [raised |-> FALSE,
         top10 |-> [i \in 1..Len(top) |-> Badge(top[i], prev_items, pks)],
         ups |-> ups, downs |-> downs, newcomers |-> newcomers, outs |-> outs.outs,
         ups_lines |-> Take(ups, LineCap), downs_lines |-> Take(downs, LineCap),
         newcomers_lines |-> Take(newcomers, LineCap), outs_lines |-> Take(outs.outs, LineCap),
         inout_count |-> InoutCount(today_items, tks, prev_items, pks)]

----------------------------------------------------------------------------
(* analyze_trends, app.py:344-394.  An entry without a previous rank has   *)
(* prev_rank = NoRank and change = NoRank (both None in the source).       *)

TOP_WINDOW == 30

\* p.get("name") or p.get("raw_name")
NameKey(it) == Or(it.name, it.raw_name)

MapNames(items) == Slice([i \in 1..Len(items) |-> NameKey(items[i])], 1, Len(items))

\* a rank that is neither None nor 0
TruthyRank(r) == r # NoRank /\ r # 0

\* prev_map.get(key): the rank of the last previous item of that name
PrevMapGet(prev, pns, key) ==
    IF key \in Range(pns) THEN prev[LastIdx(pns, key)].rank ELSE NoRank

Trend(it, prev, pns) ==
    LET key == NameKey(it)
        prev_rank == PrevMapGet(prev, pns, key)
    IN  IF TruthyRank(prev_rank)
        THEN [name |-> key, rank |-> it.rank, prev_rank |-> prev_rank,
              change |-> prev_rank - it.rank, sample_product |-> it.name]
        ELSE [name |-> key, rank |-> it.rank, prev_rank |-> NoRank,
              change |-> NoRank, sample_product |-> it.name]

ChartIns(trends, top_window) ==
    SelectIdx(trends,
              {i \in 1..Len(trends) :
                  trends[i].prev_rank = NoRank /\ trends[i].rank <= top_window})

RankOut(today, prev, pns, top_window) ==
    LET prev_top_names == {pns[i] : i \in {j \in 1..Len(prev) :
                              TruthyRank(prev[j].rank) /\ prev[j].rank <= top_window}}
        today_names == Range(MapNames(today))
        out == SelectIdx(prev,
                         {i \in 1..Len(prev) : pns[i] \in prev_top_names \ today_names})
    IN  [i \in 1..Len(out) |-> [name |-> NameKey(out[i]), prev_rank |-> out[i].rank]]

analyze_trends(today_items, prev_items, top_window) ==
    LET pns == MapNames(prev_items)
        trends == Slice([i \in 1..Len(today_items) |-> Trend(today_items[i], prev_items, pns)],
                        1, Len(today_items))
        movers == SelectIdx(trends,
                            {i \in 1..Len(trends) : trends[i].prev_rank # NoRank})
        chart_ins == ChartIns(trends, top_window)
        rank_out == RankOut(today_items, prev_items, pns, top_window)
    IN  [up_sorted |-> SortByKeys(movers, [i \in 1..Len(movers) |-> <<0 - movers[i].change>>]),
         down_sorted |-> SortByKeys(movers, [i \in 1..Len(movers) |-> <<movers[i].change>>]),
         chart_ins |-> chart_ins, rank_out |-> rank_out,
         top_window |-> top_window,
         in_out_count |-> Len(chart_ins) + Len(rank_out)]

----------------------------------------------------------------------------
(* Specification SpecDiff: the two diff functions applied to a current     *)
(* snapshot and a previous list.  A list is laid out by Snap: n positions, *)
(* product A (keyed by the goodsNo of its URL) at position pa, product B   *)
(* (no URL, keyed by its name) at position pb, and on the other positions, *)
(* in order, the filler products 1, 2, ... of family tag.  Two lists of    *)
(* the same length and family that both hold A (and both hold B) hold the  *)
(* same products in different orders.                                      *)


ProductA(r) ==
    [raw_name |-> <<"[", "x", "]", " ", "A">>, name |-> <<"A">>,
     url |-> <<DetailUrl, "?", "goodsNo", "=", "A", "&", "dispCatNo", "=", "9">>,
     rank |-> r]
ProductB(r) == [raw_name |-> <<"B">>, name |-> <<"B">>, url |-> None, rank |-> r]
Filler(tag, i, r) ==
    [raw_name |-> <<tag, ToString(i)>>, name |-> <<tag, ToString(i)>>,
     url |-> <<DetailUrl, "?", "goodsNo", "=", tag, ToString(i)>>, rank |-> r]

\* how the ranks of a list relate to its positions
RankOf(xf, i) ==
    CASE xf = "position" -> i
      [] xf = "first missing" -> IF i = 1 THEN 0 ELSE i
      [] xf = "shifted" -> i + 1

Snap(n, tag, pa, pb, xf) ==
    [i \in 1..n |-> IF i = pa THEN ProductA(RankOf(xf, i))
                    ELSE IF i = pb THEN ProductB(RankOf(xf, i))
                    ELSE Filler(tag, i - Cardinality({p \in {pa, pb} : 0 < p /\ p < i}),
                                RankOf(xf, i))]

SnapSizes == {0, 2, 12, MAX_ITEMS}
PlacesB == {0, 12, MAX_ITEMS}
Layouts(placesA) ==
    {l \in [n : SnapSizes, pa : placesA, pb : PlacesB] : l.pa <= l.n /\ l.pb <= l.n}

\* current snapshots: ranks are positions, as fill_ranks_and_fix leaves them
TodaySnaps == {Snap(l.n, "f", l.pa, l.pb, "position") : l \in Layouts({0, 1, 5, 11})}

\* previous lists: the same fillers or other ones, ranks by position, with
\* the first rank missing (0), or shifted by one (so that the last of 100
\* lies outside the window)
PrevLayouts == Layouts({0, 1, 2, 11, 15, 50})
PrevLists ==
    {Snap(l.n, "f", l.pa, l.pb, "position") : l \in PrevLayouts}
    \cup {Snap(l.n, "h", l.pa, l.pb, "position") : l \in {x \in PrevLayouts : x.pb = 0}}
    \cup {Snap(l.n, "f", l.pa, l.pb, "first missing") :
              l \in {x \in PrevLayouts : x.pa \in {0, 1} /\ x.pb = 0}}
    \cup {Snap(l.n, "f", l.pa, l.pb, "shifted") :
              l \in {x \in PrevLayouts : x.pa \in {0, 2} /\ x.pb # 12}}

NoReport == [raised |-> FALSE, computed |-> FALSE]

\* a value that is a list or None
NoList == [none |-> TRUE, list |-> <<>>]
AList(l) == [none |-> FALSE, list |-> l]

ElemIdle ==
    /\ epc = "off"
    /\ e_el = None
    /\ e_entry = None

ScrollIdle ==
    /\ spc = "off"
    /\ s_fn = "none"
    /\ s_last_height = 0
    /\ s_rounds = 0
    /\ s_iter = 0
    /\ s_stable = FALSE
    /\ s_late = 0

IntegIdle ==
    /\ ipc = "off"
    /\ i_cards = <<>>
    /\ i_products = <<>>
    /\ i_env = [dropbox |-> FALSE, sheets |-> FALSE, slack |-> FALSE]
    /\ i_calls = <<>>
    /\ i_message = None

MainIdle ==
    /\ pc = "off"
    /\ cand = 0
    /\ main_items = NoList
    /\ items_filled = <<>>
    /\ main_prev = NoList
    /\ local_files = {}
    /\ drive_files = <<>>
    /\ slack_calls = <<>>
    /\ exit_code = 0 - 1
    /\ drive_on = FALSE
    /\ playwright = FALSE
    /\ probe_result = NoList
    /\ fallback_result = NoList
    /\ writes = {}
    /\ calls = <<>>
    /\ requested = <<>>
    /\ last_kind = "none"
    /\ prev_lookup = "none"
    /\ render_attempts = 0

WonIdle ==
    /\ wpc = "off"
    /\ won_text = None
    /\ won_value = NoPrice

PriceIdle ==
    /\ vpc = "off"
    /\ price_path = "none"
    /\ json_raw = None
    /\ html_raw = None
    /\ price_entry = None

PipeIdle ==
    /\ ppc = "off"
    /\ workdir = {}
    /\ main_success = FALSE
    /\ app_result = "none"
    /\ files_exist = FALSE
    /\ latest_file = None

KeyIdle ==
    /\ kpc = "off"
    /\ k_a = None
    /\ k_b = None
    /\ key_a = None
    /\ key_b = None

RankIdle ==
    /\ rpc = "off"
    /\ ranked_given = <<>>
    /\ ranked_in = <<>>
    /\ ranked_out = <<>>

DiffIdle ==
    /\ dpc = "off"
    /\ d_today = <<>>
    /\ d_prev = <<>>
    /\ d_report = NoReport
    /\ d_trend = NoReport

TitleIdle ==
    /\ tpc = "off"
    /\ raw_title = None
    /\ once_title = None
    /\ twice_title = None

InitDiff ==
    /\ TitleIdle /\ MainIdle /\ RankIdle /\ KeyIdle /\ PipeIdle /\ PriceIdle /\ WonIdle /\ ElemIdle /\ ScrollIdle /\ IntegIdle
    /\ dpc = "input"
    /\ d_today \in TodaySnaps
    /\ d_prev \in PrevLists
    /\ d_report = NoReport
    /\ d_trend = NoReport

BuildSlackMessage ==
    /\ dpc = "input"
    /\ d_report' = build_slack_message_kor(d_today, d_prev)
    /\ dpc' = "message"
    /\ UNCHANGED <<d_today, d_prev, d_trend, notDiff>>

AnalyzeTrends ==
    /\ dpc = "input"
    /\ \E w \in {TOP_WINDOW, OutWindow} : d_trend' = analyze_trends(d_today, d_prev, w)
    /\ dpc' = "trends"
    /\ UNCHANGED <<d_today, d_prev, d_report, notDiff>>

NextDiff == BuildSlackMessage \/ AnalyzeTrends

SpecDiff == InitDiff /\ [][NextDiff]_vars

----------------------------------------------------------------------------
(* Extraction, app.py:104-236.  An item carries the fields the operations  *)
(* of this model read: raw_name, name, url, rank.                          *)


\* isinstance(u, str) and u.startswith("/")
StartsWithSlash(u) == u # None /\ u # <<>> /\ u[1] = "/"

\* app.py:199-226: one element of a structured response
JsonItem(it) ==
    LET name_val == Or(Or(Or(it.prdNm, it.prodName), it.goodsNm), it.name)
        url0 == Or(Or(it.goodsUrl, it.prdUrl), it.url)
        url_val == IF StartsWithSlash(url0) THEN <<Origin>> \o url0 ELSE url0
    IN  [raw_name |-> name_val, name |-> clean_title(Or(name_val, <<>>)),
         url |-> url_val, rank |-> NoRank]

JsonKeys == {"BestProductList", "list", "rows", "items", "bestList", "result"}

\* app.py:195-229: the list found under a known key, mapped; <<>> when the
\* response holds no non-empty list under a known key
JsonItems(key, list) ==
    IF key \in JsonKeys /\ list # <<>>
    THEN LET head == Take(list, MAX_ITEMS)
         IN  Slice([i \in 1..Len(head) |-> JsonItem(head[i])], 1, Len(head))
    ELSE <<>>

\* app.py:122-131: el.names[n] is the text of the node the n-th name selector
\* finds in the element (None: no such node)
NameSelectors == <<".tx_name", ".prd_name .tx_name", ".prd_name", ".prd_tit", "a">>

HasName(el) == \E n \in 1..Len(NameSelectors) : Truthy(NodeStripped(el.names[n]))

\* app.py:131-164
HtmlItem(el) ==
    LET hits == {n \in 1..Len(NameSelectors) : Truthy(NodeStripped(el.names[n]))}
        raw_name == NodeStripped(el.names[CHOOSE n \in hits : \A m \in hits : n <= m])
        href == IF StartsWithSlash(el.href) THEN <<Origin>> \o el.href ELSE el.href
    IN  [raw_name |-> raw_name, name |-> clean_title(raw_name), url |-> href,
         rank |-> NoRank]

\* app.py:140-142: the brand node's text, empty or not; the brand derived
\* from the cleaned name when the element has no brand node
HtmlBrand(el) ==
    LET brand_node == FirstNode(el.tx_brand, el.brand)
    IN  IF brand_node # None THEN NodeStripped(brand_node)
        ELSE extract_brand_from_name(clean_title(HtmlItem(el).raw_name))

\* app.py:122-164: the whole entry of an element that has a name; Skipped for
\* an element without one (app.py:129-130)
Skipped == [skipped |-> TRUE]

HtmlEntry(el) ==
    IF ~HasName(el) THEN Skipped
    ELSE [skipped |-> FALSE,
          raw_name |-> HtmlItem(el).raw_name,
          name |-> HtmlItem(el).name,
          brand |-> HtmlBrand(el),
          url |-> HtmlItem(el).url,
          original_price |-> HtmlPrices(el).original_price,
          sale_price |-> HtmlPrices(el).sale_price,
          discount_pct |-> HtmlPrices(el).discount_pct]

\* app.py:118-164 over the elements one container selector matches
ParseElements(els) ==
    LET named == SelectIdx(els, {i \in 1..Len(els) : HasName(els[i])})
        head == Take(named, MAX_ITEMS)
    IN  Slice([i \in 1..Len(head) |-> HtmlItem(head[i])], 1, Len(head))

\* app.py:104-168: doc[n] is what the n-th container selector matches
ContainerSelectors ==
    <<"ul.cate_prd_list li", "ul.prd_list li", ".cate_prd_list li",
      ".ranking_list li", ".rank_item">>

parse_html_products(doc) ==
    LET hits == {n \in 1..Len(ContainerSelectors) : ParseElements(doc[n]) # <<>>}
    IN  IF hits = {} THEN <<>>
        ELSE ParseElements(doc[CHOOSE n \in hits : \A m \in hits : n <= m])

\* app.py:605-606
Truncate(list) == IF Len(list) > MAX_ITEMS THEN Take(list, MAX_ITEMS) ELSE list

\* a rank assignment that stops one item early (break at rank >= MAX_ITEMS)
fill_ranks_stop_early(list) ==
    LET n == IF Len(list) < MAX_ITEMS - 1 THEN Len(list) ELSE MAX_ITEMS - 1
    IN  Slice([i \in 1..n |-> [list[i] EXCEPT !.rank = i]], 1, n)

\* app.py:266-275
fill_ranks_and_fix(list) ==
    LET n == IF Len(list) < MAX_ITEMS THEN Len(list) ELSE MAX_ITEMS
    IN  Slice([i \in 1..n |-> [list[i] EXCEPT !.rank = i]], 1, n)

----------------------------------------------------------------------------
(* What the site answers.                                                  *)

MaxLen == 3

NoRaw ==
    [prdNm |-> None, prodName |-> None, goodsNm |-> None, name |-> None,
     goodsUrl |-> None, prdUrl |-> None, url |-> None]


RawA == [NoRaw EXCEPT !.prdNm = <<"A">>,
                      !.goodsUrl = <<DetailUrl, "?", "goodsNo", "=", "A">>]
\* the same product in another slot: a tagged title, a relative link
RawA2 == [NoRaw EXCEPT !.goodsNm = <<"[", "x", "]", " ", "A">>,
                       !.url = <<"/", GoodsPath, "?", "goodsNo", "=", "A", "&", "t", "=", "1">>]
RawB == [NoRaw EXCEPT !.name = <<"B">>]
RawFiller(i) ==
    [NoRaw EXCEPT !.prdNm = <<"f", ToString(i)>>,
                  !.goodsUrl = <<DetailUrl, "?", "goodsNo", "=", "f", ToString(i)>>]

\* a slot without any of the name and link fields (a banner)
RawBlank == NoRaw
\* a name with a carriage return in it
RawCR == [NoRaw EXCEPT !.prdNm = <<"C", "\r", "D">>,
                       !.goodsUrl = <<DetailUrl, "?", "goodsNo", "=", "C">>]
RawRecs == {RawA, RawA2, RawB}
LongSizes == {MAX_ITEMS - 1, MAX_ITEMS, MAX_ITEMS + 1}
RawLists ==
    UNION {[1..n -> RawRecs] : n \in 0..MaxLen}
    \cup {[i \in 1..n |-> RawFiller(i)] : n \in LongSizes}
    \cup {<<RawA, RawBlank>>, <<RawA, RawCR, RawB>>}

ElA == [names |-> <<None, None, <<"A">>, None, <<"A">>>>,
        href |-> <<"/", GoodsPath, "?", "goodsNo", "=", "A">>]
ElB == [names |-> <<<<>>, None, None, <<"P", "I", "C", "K", " ", "B">>, <<>>>>, href |-> None]
ElBanner == [names |-> <<None, None, None, None, <<>>>>, href |-> <<"/", "event">>]
ElFiller(i) ==
    [names |-> <<<<"f", ToString(i)>>, None, None, None, <<>>>>,
     href |-> <<DetailUrl, "?", "goodsNo", "=", "f", ToString(i)>>]

ElementLists ==
    {<<>>, <<ElBanner>>, <<ElA>>, <<ElBanner, ElA, ElB>>, <<ElA, ElB, ElA>>,
     [i \in 1..(MAX_ITEMS + 1) |-> IF i = 2 THEN ElBanner ELSE ElFiller(i)]}

\* a page whose elements are matched by the n-th container selector only
DocAt(n, els) == [m \in 1..Len(ContainerSelectors) |-> IF m = n THEN els ELSE <<>>]
Docs == {DocAt(n, els) : n \in {1, Len(ContainerSelectors)}, els \in ElementLists}

NoDoc == DocAt(1, <<>>)

Responses ==
    {[kind |-> k, key |-> "", list |-> <<>>, doc |-> NoDoc] : k \in {"error", "status"}}
    \cup {[kind |-> "json", key |-> k, list |-> l, doc |-> NoDoc] :
             k \in {"BestProductList", "data"}, l \in RawLists}
    \cup {[kind |-> "html", key |-> "", list |-> <<>>, doc |-> d] : d \in Docs}

----------------------------------------------------------------------------
(* The snapshot store.  A file is [name, rows]; the name is the date it is  *)
(* derived from; rows are the CSV rows main writes (app.py:623-634).       *)

Today == "d3"
Yesterday == "d2"
Earlier == "d1"

\* app.py:615-621: None is written as the empty text
CsvText(v) == IF v = None THEN <<>> ELSE v

CsvRows(filled) ==
    [i \in 1..Len(filled) |->
        [rank |-> filled[i].rank, name |-> CsvText(filled[i].name),
         url |-> CsvText(filled[i].url), raw_name |-> CsvText(filled[i].raw_name)]]

StoredA == CsvRows(fill_ranks_and_fix(JsonItems("list", <<RawA, RawB>>)))
StoredB == CsvRows(fill_ranks_and_fix(JsonItems("list", <<RawB, RawA>>)))
StoredCR == CsvRows(fill_ranks_and_fix(JsonItems("list", <<RawA, RawCR, RawB>>)))

File(d, rows) == [name |-> d, rows |-> rows]

\* what earlier runs may have left in the Drive folder
InitDrives ==
    {<<>>, <<File(Yesterday, StoredA)>>, <<File(Earlier, StoredA)>>,
     <<File(Earlier, StoredA), File(Today, StoredB)>>,
     <<File(Yesterday, StoredCR)>>}

Running == 0 - 1

Init ==
    /\ TitleIdle /\ DiffIdle /\ RankIdle /\ KeyIdle /\ PipeIdle /\ PriceIdle /\ WonIdle /\ ElemIdle /\ ScrollIdle /\ IntegIdle
    /\ pc = "probe"
    /\ cand = 1
    /\ main_items = NoList
    /\ items_filled = <<>>
    /\ main_prev = NoList
    /\ drive_files \in InitDrives
    /\ local_files \in {{}, {File(Today, StoredB)}}
    /\ slack_calls = <<>>
    /\ exit_code = Running
    /\ drive_on \in BOOLEAN
    /\ playwright \in BOOLEAN
    /\ probe_result = NoList
    /\ fallback_result = NoList
    /\ writes = {}
    /\ calls = <<>>
    /\ requested = <<>>
    /\ last_kind = "none"
    /\ prev_lookup = "none"
    /\ render_attempts = 0

NumCandidates == 4

\* app.py:183-233: what one candidate's response yields (<<>>: go on)
CandidateItems(r) ==
    CASE r.kind = "json" ->
           IF JsonItems(r.key, r.list) # <<>> THEN JsonItems(r.key, r.list)
           ELSE parse_html_products(NoDoc)
      [] r.kind = "html" -> parse_html_products(r.doc)
      [] OTHER -> <<>>

\* a test for None alone (items is None)
IsNoneOnly(v) == v.none

\* not items
Falsy(v) == v.none \/ v.list = <<>>

\* a loop that requests every candidate, whatever the earlier ones yielded
HttpCandidateKeepsGoing ==
    /\ pc = "probe"
    /\ \E r \in Responses :
         LET out == CandidateItems(r)
             ret == IF out # <<>> THEN AList(out) ELSE NoList
         IN  /\ requested' = Append(requested,
                    [target |-> cand,
                     outcome |-> IF out # <<>> THEN "items" ELSE "nothing"])
             /\ last_kind' = r.kind
             /\ IF cand < NumCandidates
                THEN /\ cand' = cand + 1
                     /\ UNCHANGED <<pc, main_items, probe_result, calls>>
                ELSE /\ cand' = 0
                     /\ pc' = "probed"
                     /\ main_items' = ret
                     /\ probe_result' = ret
                     /\ calls' = Append(calls, "try_http_candidates")
    /\ UNCHANGED <<items_filled, main_prev, local_files, drive_files, slack_calls,
                   exit_code, drive_on, playwright, fallback_result, writes>>
    /\ UNCHANGED <<prev_lookup, render_attempts>>
    /\ UNCHANGED notMain

\* app.py:178-236: one iteration of try_http_candidates' loop; the return to
\* main (app.py:596) is part of the iteration that ends the loop
HttpCandidate ==
    /\ pc = "probe"
    /\ \E r \in Responses :
         LET out == CandidateItems(r)
             ret == IF out # <<>> THEN AList(out) ELSE NoList
         IN  /\ requested' = Append(requested,
                    [target |-> cand,
                     outcome |-> IF out # <<>> THEN "items" ELSE "nothing"])
             /\ last_kind' = r.kind
             /\ IF out = <<>> /\ cand < NumCandidates
                THEN /\ cand' = cand + 1
                     /\ UNCHANGED <<pc, main_items, probe_result, calls>>
                ELSE /\ cand' = 0
                     /\ pc' = "probed"
                     /\ main_items' = ret
                     /\ probe_result' = ret
                     /\ calls' = Append(calls, "try_http_candidates")
    /\ UNCHANGED <<items_filled, main_prev, local_files, drive_files, slack_calls,
                   exit_code, drive_on, playwright, fallback_result, writes>>
    /\ UNCHANGED <<prev_lookup, render_attempts>>
    /\ UNCHANGED notMain

\* a fallback that does not look at the probe's result
FallbackUnguarded ==
    /\ pc = "probed"
    /\ \E ret \in {NoList} \cup {AList(parse_html_products(d)) : d \in Docs} :
         /\ main_items' = ret
         /\ fallback_result' = ret
    /\ render_attempts' = 1
    /\ pc' = "rendered"
    /\ calls' = Append(calls, "try_playwright_render")
    /\ UNCHANGED <<cand, items_filled, main_prev, local_files, drive_files,
                   slack_calls, exit_code, drive_on, playwright, probe_result, writes>>
    /\ UNCHANGED <<requested, last_kind, prev_lookup>>
    /\ UNCHANGED notMain

\* app.py:597-599, 238-264
Fallback ==
    /\ pc = "probed"
    /\ Falsy(main_items)
    /\ \E ret \in IF playwright
                  THEN {NoList} \cup {AList(parse_html_products(d)) : d \in Docs}
                  ELSE {NoList} :
         /\ main_items' = ret
         /\ fallback_result' = ret
    /\ render_attempts' = IF playwright THEN 1 ELSE 0
    /\ pc' = "rendered"
    /\ calls' = Append(calls, "try_playwright_render")
    /\ UNCHANGED <<cand, items_filled, main_prev, local_files, drive_files,
                   slack_calls, exit_code, drive_on, playwright, probe_result, writes>>
    /\ UNCHANGED <<requested, last_kind, prev_lookup>>
    /\ UNCHANGED notMain

\* app.py:600-603
ScrapingFailed ==
    /\ pc = "rendered"
    /\ Falsy(main_items)
    /\ slack_calls' = Append(slack_calls, "scraping failed")
    /\ calls' = Append(calls, "send_slack_text")
    /\ exit_code' = 1
    /\ pc' = "returned"
    /\ UNCHANGED <<cand, main_items, items_filled, main_prev, local_files,
                   drive_files, drive_on, playwright, probe_result,
                   fallback_result, writes>>
    /\ UNCHANGED <<requested, last_kind, prev_lookup, render_attempts>>
    /\ UNCHANGED notMain

\* app.py:605-607.  fill_ranks_and_fix writes the ranks into the dicts it is
\* given and returns a list of those dicts, so main's items, cut to the
\* first MAX_ITEMS at 606, holds the ranked entries as well.
FillRanks ==
    /\ pc \in {"probed", "rendered"}
    /\ ~Falsy(main_items)
    /\ items_filled' = fill_ranks_and_fix(Truncate(main_items.list))
    /\ main_items' = AList(fill_ranks_and_fix(Truncate(main_items.list)))
    /\ calls' = Append(calls, "fill_ranks_and_fix")
    /\ pc' = "ranked"
    /\ UNCHANGED <<cand, main_prev, local_files, drive_files,
                   slack_calls, exit_code, drive_on, playwright, probe_result,
                   fallback_result, writes>>
    /\ UNCHANGED <<requested, last_kind, prev_lookup, render_attempts>>
    /\ UNCHANGED notMain

\* app.py:610-641: the file of today's name is created or overwritten
SaveLocal ==
    /\ pc = "ranked"
    /\ local_files' = {f \in local_files : f.name # Today}
                        \cup {File(Today, CsvRows(items_filled))}
    /\ writes' = writes \cup {"local"}
    /\ pc' = "saved"
    /\ UNCHANGED <<cand, main_items, items_filled, main_prev, drive_files,
                   slack_calls, exit_code, drive_on, playwright, probe_result,
                   fallback_result, calls>>
    /\ UNCHANGED <<requested, last_kind, prev_lookup, render_attempts>>
    /\ UNCHANGED notMain

\* app.py:644-648, 299-312: files().create adds a file; a failed request is
\* logged and the run goes on
Upload ==
    /\ pc = "saved"
    /\ \/ /\ drive_on
          /\ drive_files' = Append(drive_files, File(Today, CsvRows(items_filled)))
          /\ writes' = writes \cup {"drive"}
          /\ calls' = Append(calls, "upload_csv_to_drive")
       \/ /\ drive_on
          /\ calls' = Append(calls, "upload_csv_to_drive")
          /\ UNCHANGED <<drive_files, writes>>
       \/ /\ ~drive_on
          /\ UNCHANGED <<drive_files, writes, calls>>
    /\ pc' = "uploaded"
    /\ UNCHANGED <<cand, main_items, items_filled, main_prev, local_files,
                   slack_calls, exit_code, drive_on, playwright, probe_result,
                   fallback_result>>
    /\ UNCHANGED <<requested, last_kind, prev_lookup, render_attempts>>
    /\ UNCHANGED notMain

\* app.py:314-326: any one file of that name (the listing is unordered)
find_csv_by_exact_name(files, filename) ==
    {AList(<<files[i]>>) : i \in {j \in 1..Len(files) : files[j].name = filename}}

\* app.py:657-665: the two newest files, newest first; the first of them not
\* named like today's
BackupFile(files) ==
    LET n == Len(files)
        newest == [i \in 1..(IF n < 2 THEN n ELSE 2) |-> files[n + 1 - i]]
        ok == {i \in 1..Len(newest) : newest[i].name # Today}
    IN  IF ok = {} THEN NoList
        ELSE AList(<<newest[CHOOSE i \in ok : \A j \in ok : i <= j]>>)

\* app.py:615-621: q() puts a value that holds one of these between quotes
NeedsQuotes(v) == \E i \in 1..Len(v) : v[i] \in {",", "\n", "\""}

\* csv.reader gives a quoted value back as it was written; in a value
\* written without quotes a carriage return ends the record
EndsRecord(v) == ~NeedsQuotes(v) /\ Find(v, {"\r"}, 1) # 0

\* csv.Error (new-line character seen in unquoted field): the carriage
\* return that ends the record is followed by more than the end of the line,
\* as it is in every column but the last
RowFails(row) ==
    \/ EndsRecord(row.name)
    \/ EndsRecord(row.url)
    \/ /\ EndsRecord(row.raw_name)
       /\ \E j \in Find(row.raw_name, {"\r"}, 1)..Len(row.raw_name) :
              row.raw_name[j] # "\r"

\* the last column as csv.reader returns it
ReadLastColumn(v) ==
    IF EndsRecord(v) THEN SubSeq(v, 1, Find(v, {"\r"}, 1) - 1) ELSE v

\* app.py:677-686: a row read back; int(r.get("rank") or 0)
PrevItem(row) ==
    [rank |-> IF row.rank = NoRank THEN 0 ELSE row.rank,
     name |-> row.name,
     raw_name |-> ReadLastColumn(row.raw_name),
     url |-> None]

\* the first n rows, read back
ReadRows(rows, n) == Slice([i \in 1..n |-> PrevItem(rows[i])], 1, n)

\* app.py:672-688: the rows read before csv.DictReader raises, which ends the
\* reading (688)
PrevItems(file) ==
    IF \A i \in 1..Len(file.rows) : ~RowFails(file.rows[i])
    THEN ReadRows(file.rows, Len(file.rows))
    ELSE ReadRows(file.rows,
                  (CHOOSE i \in 1..Len(file.rows) :
                      /\ RowFails(file.rows[i])
                      /\ \A j \in 1..(i - 1) : ~RowFails(file.rows[j])) - 1)

\* app.py:650-688.  The exact-name search yields a file of yesterday's name,
\* or None when there is none or the request fails; on None the backup search
\* runs, which yields its file, or None when it fails; a failed download
\* leaves prev_items None.  prev_lookup records which of these happened.
LoadPrev ==
    /\ pc = "uploaded"
    /\ IF drive_on
       THEN LET exact == find_csv_by_exact_name(drive_files, Yesterday)
                backup == BackupFile(drive_files)
            IN  \/ \E y \in exact :
                      /\ main_prev' = AList(PrevItems(y.list[1]))
                      /\ prev_lookup' = "exact"
                \/ /\ ~backup.none
                   /\ main_prev' = AList(PrevItems(backup.list[1]))
                   /\ prev_lookup' = "backup"
                \/ /\ exact = {}
                   /\ backup.none
                   /\ main_prev' = NoList
                   /\ prev_lookup' = "nothing"
                \/ /\ main_prev' = NoList
                   /\ prev_lookup' = "failed"
       ELSE /\ main_prev' = NoList
            /\ prev_lookup' = "skipped"
    /\ pc' = "loaded"
    /\ UNCHANGED <<cand, main_items, items_filled, local_files, drive_files,
                   slack_calls, exit_code, drive_on, playwright, probe_result,
                   fallback_result, writes, calls>>
    /\ UNCHANGED <<requested, last_kind, render_attempts>>
    /\ UNCHANGED notMain

\* app.py:691: build_slack_message_kor takes four arguments and is given
\* three; the call raises TypeError and main does not return
BuildMessage ==
    /\ pc = "loaded"
    /\ pc' = "raised"
    /\ calls' = Append(calls, "build_slack_message_kor")
    /\ UNCHANGED <<cand, main_items, items_filled, main_prev, local_files,
                   drive_files, slack_calls, exit_code, drive_on, playwright,
                   probe_result, fallback_result, writes>>
    /\ UNCHANGED <<requested, last_kind, prev_lookup, render_attempts>>
    /\ UNCHANGED notMain

Next ==
    \/ HttpCandidate
    \/ Fallback
    \/ ScrapingFailed
    \/ FillRanks
    \/ SaveLocal
    \/ Upload
    \/ LoadPrev
    \/ BuildMessage

Spec == Init /\ [][Next]_vars

----------------------------------------------------------------------------
(* Specification SpecRank: main's truncation and fill_ranks_and_fix         *)
(* (app.py:605-607) over item lists of any length, whatever rank the items  *)
(* carry.                                                                  *)

SmallLen == 4
Overshoot == 2

RankInputSizes == (0..SmallLen) \cup ((MAX_ITEMS - 1)..(MAX_ITEMS + Overshoot))

\* the rank the i-th item of an n-item input carries
RankBefore(how, i, n) ==
    CASE how = "none" -> NoRank
      [] how = "same" -> 7
      [] how = "reversed" -> n + 1 - i
      [] how = "beyond" -> MAX_ITEMS + i

RankInputs ==
    {[i \in 1..n |-> Filler(tag, i, RankBefore(how, i, n))] :
        n \in RankInputSizes, tag \in {"f", "h"},
        how \in {"none", "same", "reversed", "beyond"}}

InitRank ==
    /\ TitleIdle /\ DiffIdle /\ MainIdle /\ KeyIdle /\ PipeIdle /\ PriceIdle /\ WonIdle /\ ElemIdle /\ ScrollIdle /\ IntegIdle
    /\ rpc = "input"
    /\ ranked_given \in RankInputs
    /\ ranked_in = ranked_given
    /\ ranked_out = <<>>

\* app.py:605-607.  ranked_in is main's items: it is cut to the first
\* MAX_ITEMS and its dicts get the ranks; ranked_given keeps the list as it
\* was acquired.
AssignRanks ==
    /\ rpc = "input"
    /\ ranked_out' = fill_ranks_and_fix(Truncate(ranked_in))
    /\ ranked_in' = fill_ranks_and_fix(Truncate(ranked_in))
    /\ rpc' = "ranked"
    /\ UNCHANGED <<ranked_given, notRank>>

NextRank == AssignRanks

SpecRank == InitRank /\ [][NextRank]_vars

----------------------------------------------------------------------------
(* Specification SpecKey: _oy_key (app.py:436-442) applied to two entries.  *)

KeyUrls ==
    {None, <<>>,
     <<DetailUrl>>,
     <<DetailUrl, "?", "goodsNo", "=", "A">>,
     <<" ", DetailUrl, "?", "t", "=", "1", "&", "goodsNo", "=", "A", "#", "top", " ">>,
     <<"/", GoodsPath, "?", "goodsNo", "=", "B">>,
     <<DetailUrl, "?", "goodsNo", "=", "&", "goodsNo", "=", "B", "&", "goodsNo", "=", "A">>,
     <<DetailUrl, "?", "goodsNo", "=">>,
     <<DetailUrl, "?", "goodsNo">>,
     <<DetailUrl, "?", "t", "=", "1", "#", "?", "goodsNo", "=", "A">>,
     <<DetailUrl, "#", "x", "?", "goodsNo", "=", "A">>,
     <<DetailUrl, "?", "goodsNo", "=", "A", "+", "B">>,
     <<DetailUrl, "?", "goodsNo", "=", "%", "4", "1">>,
     <<DetailUrl, "?", "g", "o", "o", "d", "s", "%", "4", "E", "o", "=", "B">>,
     <<"/", "/", "[", "x", "?", "goodsNo", "=", "A">>,
     <<"/", "/", "<U+2100>", "?", "goodsNo", "=", "A">>}
KeyNames == {None, <<>>, <<"A">>, <<"<U+3000>", "B", " ">>}

KeyItems == [url : KeyUrls, name : KeyNames, raw_name : KeyNames, rank : {NoRank}]

InitKey ==
    /\ TitleIdle /\ DiffIdle /\ MainIdle /\ RankIdle /\ PipeIdle /\ PriceIdle /\ WonIdle /\ ElemIdle /\ ScrollIdle /\ IntegIdle
    /\ kpc = "input"
    /\ k_a \in KeyItems
    /\ k_b \in KeyItems
    /\ key_a = None
    /\ key_b = None

ResolveKeys ==
    /\ kpc = "input"
    /\ key_a' = _oy_key(k_a)
    /\ key_b' = _oy_key(k_b)
    /\ kpc' = "resolved"
    /\ UNCHANGED <<k_a, k_b, notKey>>

NextKey == ResolveKeys

SpecKey == InitKey /\ [][NextKey]_vars

----------------------------------------------------------------------------
(* Specification SpecPipeline: test_scraper.py's main runs main.py, then   *)
(* app.py, then looks for the ranking files, then runs slack.py            *)
(* (test_scraper.py:110-147).  A file name is stem + date + ext, the date   *)
(* given by its day number (0: no date in the name).                       *)

Name(stem, day, ext) == [stem |-> stem, day |-> day, ext |-> ext]

\* app.py:38, 610: the directory app.py saves into
OUT_DIR == Name("rankings", 0, "")

\* f.startswith("ranking_") and f.endswith(".json"); glob("ranking_*.json")
IsRankingJson(f) == f.stem = "ranking_" /\ f.ext = ".json"

LastDay == 3

WorkNames ==
    {Name("ranking_", d, ".json") : d \in 1..LastDay}
    \cup {Name("ranking_", LastDay, ".txt"), Name("oliveyoung_", LastDay, ".csv"), OUT_DIR}

InitPipeline ==
    /\ TitleIdle /\ DiffIdle /\ MainIdle /\ RankIdle /\ KeyIdle /\ PriceIdle /\ WonIdle /\ ElemIdle /\ ScrollIdle /\ IntegIdle
    /\ ppc = "main.py"
    /\ workdir \in SUBSET WorkNames
    /\ main_success = FALSE
    /\ app_result = "none"
    /\ files_exist = FALSE
    /\ latest_file = None

\* test_scraper.py:12-34 and main.py:75-91: main.py prints the ranking and
\* posts it; it writes no file.  Its exit status is 0 also when the scrape
\* raised (main.py:87-91), and not 0 when the script cannot start.
test_main_scraper ==
    /\ ppc = "main.py"
    /\ main_success' \in BOOLEAN
    /\ ppc' = "app.py"
    /\ UNCHANGED <<workdir, app_result, files_exist, latest_file, notPipe>>

\* test_scraper.py:36-58 and app.py:588-699: a run of app.py either returns 1
\* without a write (app.py:600-603) or saves OUT_DIR/<csv of today>
\* (app.py:610-641) and then raises TypeError at app.py:691
test_app_scraper ==
    /\ ppc = "app.py"
    /\ \/ /\ app_result' = "returned 1"
          /\ UNCHANGED workdir
       \/ /\ app_result' = "saved, TypeError"
          /\ workdir' = workdir \cup {OUT_DIR}
    /\ ppc' = "check_files"
    /\ UNCHANGED <<main_success, files_exist, latest_file, notPipe>>

\* test_scraper.py:92-108
check_files ==
    /\ ppc = "check_files"
    /\ files_exist' = (\E f \in workdir : IsRankingJson(f))
    /\ ppc' = "slack.py"
    /\ UNCHANGED <<workdir, main_success, app_result, latest_file, notPipe>>

\* slack.py:42-54
find_latest_ranking_file(dir) ==
    LET files == {f \in dir : IsRankingJson(f)}
    IN  IF files = {} THEN None
        ELSE CHOOSE f \in files : \A g \in files : g.day <= f.day

\* test_scraper.py:126-131 and slack.py:56-63
test_slack_sender ==
    /\ ppc = "slack.py"
    /\ files_exist
    /\ latest_file' = find_latest_ranking_file(workdir)
    /\ ppc' = "done"
    /\ UNCHANGED <<workdir, main_success, app_result, files_exist, notPipe>>

NextPipeline ==
    \/ test_main_scraper
    \/ test_app_scraper
    \/ check_files
    \/ test_slack_sender

SpecPipeline == InitPipeline /\ [][NextPipeline]_vars

----------------------------------------------------------------------------
(* Specification SpecElement: parse_html_products on one element; a field  *)
(* of the element is the stripped text of the node its selector finds      *)
(* (None: no node), href the attribute of the first link.                  *)

ElemNames ==
    {<<None, None, None, None, None>>,
     <<<<"A">>, None, <<"B">>, None, None>>,
     <<<<>>, None, <<"A", " ", "B">>, None, <<"C">>>>,
     <<None, <<>>, <<>>, <<"1", "+", "1", " ", "A", "-", "B">>, <<>>>>,
     <<None, None, None, None, <<"[", "x", "]", " ", "<gi>", "<hoek>", ",", "A">>>>}
ElemCurNums == {None, <<>>, <<"7", "0">>}
ElemCurs == {None, <<"7", "1", "w">>}
ElemOrgNums == {None, <<"1", "0", "0">>}
ElemBrandNodes == {None, <<>>, <<"X">>}
ElemBrands == {None, <<"Y">>}
ElemHrefs == {None, <<>>, <<"/", GoodsPath, "?", "goodsNo", "=", "A">>}

\* the link whose href is read is the node of the last name selector ("a")
ElemInputs ==
    {el \in [names : ElemNames, href : ElemHrefs,
             tx_cur_num : ElemCurNums, tx_cur : ElemCurs,
             tx_org_num : ElemOrgNums, tx_org : {None},
             tx_brand : ElemBrandNodes, brand : ElemBrands] :
        el.names[Len(NameSelectors)] = None => el.href = None}

InitElement ==
    /\ TitleIdle /\ DiffIdle /\ MainIdle /\ RankIdle /\ KeyIdle /\ PipeIdle /\ PriceIdle /\ WonIdle /\ ScrollIdle /\ IntegIdle
    /\ epc = "input"
    /\ e_el \in ElemInputs
    /\ e_entry = None

\* app.py:118-164, one pass of the loop over the elements
ParseElement ==
    /\ epc = "input"
    /\ e_entry' = HtmlEntry(e_el)
    /\ epc' = IF HasName(e_el) THEN "appended" ELSE "skipped"
    /\ UNCHANGED <<e_el, notElem>>

NextElement == ParseElement

SpecElement == InitElement /\ [][NextElement]_vars

----------------------------------------------------------------------------
(* Specification SpecScroll: smart_scroll (integrated_scraper.py:104-116)  *)
(* and scroll_to_bottom (oliveyoung.py:53-85), one action per pass of the  *)
(* loop.  The page reports any height and any number of elements.          *)
(* s_rounds is the loop's counter; s_iter counts the passes made, s_stable *)
(* tells that a pass has seen the height unchanged, and s_late counts the  *)
(* passes made after such a pass.                                          *)

max_rounds == 10
max_scroll_attempts == 10
FullCount == 100

MaxHeight == 4
Heights == 1..MaxHeight
Counts == {FullCount - 1, FullCount}

InitScroll ==
    /\ TitleIdle /\ DiffIdle /\ MainIdle /\ RankIdle /\ KeyIdle /\ PipeIdle /\ PriceIdle /\ WonIdle /\ ElemIdle /\ IntegIdle
    /\ spc = "loop"
    /\ s_fn \in {"smart_scroll", "scroll_to_bottom"}
    /\ s_last_height \in Heights
    /\ s_rounds = 0
    /\ s_iter = 0
    /\ s_stable = FALSE
    /\ s_late = 0

\* a loop that goes on after a pass in which the height did not change
SmartRoundNoBreak ==
    /\ spc = "loop"
    /\ s_fn = "smart_scroll"
    /\ s_rounds < max_rounds
    /\ \E new_height \in Heights :
         /\ s_rounds' = s_rounds + 1
         /\ s_iter' = s_iter + 1
         /\ s_late' = IF s_stable THEN s_late + 1 ELSE s_late
         /\ s_stable' = (s_stable \/ new_height = s_last_height)
         /\ s_last_height' = new_height
         /\ spc' = IF s_rounds + 1 < max_rounds THEN "loop" ELSE "done"
    /\ UNCHANGED <<s_fn, notScroll>>

\* integrated_scraper.py:108-116
SmartRound ==
    /\ spc = "loop"
    /\ s_fn = "smart_scroll"
    /\ s_rounds < max_rounds
    /\ \E new_height \in Heights :
         /\ s_rounds' = s_rounds + 1
         /\ s_iter' = s_iter + 1
         /\ s_late' = IF s_stable THEN s_late + 1 ELSE s_late
         /\ IF new_height = s_last_height
            THEN /\ s_stable' = TRUE
                 /\ spc' = "done"
                 /\ UNCHANGED s_last_height
            ELSE /\ s_last_height' = new_height
                 /\ spc' = IF s_rounds + 1 < max_rounds THEN "loop" ELSE "done"
                 /\ UNCHANGED s_stable
    /\ UNCHANGED <<s_fn, notScroll>>

\* oliveyoung.py:59-82: the pass ends the loop when the height is unchanged
\* and either all elements are there or the count does not grow in the extra
\* wait; otherwise it counts as an attempt
BottomIteration ==
    /\ spc = "loop"
    /\ s_fn = "scroll_to_bottom"
    /\ s_rounds < max_scroll_attempts
    /\ \E new_height \in Heights, current_product_count \in Counts,
          current_product_count_after_wait \in Counts :
         /\ s_iter' = s_iter + 1
         /\ s_late' = IF s_stable THEN s_late + 1 ELSE s_late
         /\ s_stable' = (s_stable \/ new_height = s_last_height)
         /\ IF new_height = s_last_height
               /\ (current_product_count >= FullCount
                   \/ current_product_count_after_wait = current_product_count)
            THEN /\ spc' = "done"
                 /\ UNCHANGED <<s_last_height, s_rounds>>
            ELSE /\ s_last_height' = new_height
                 /\ s_rounds' = s_rounds + 1
                 /\ spc' = IF s_rounds + 1 < max_scroll_attempts THEN "loop" ELSE "done"
    /\ UNCHANGED <<s_fn, notScroll>>

NextScroll == SmartRound \/ BottomIteration

SpecScroll == InitScroll /\ [][NextScroll]_vars

----------------------------------------------------------------------------
(* Specification SpecIntegrated: a run of integrated_scraper.py's main     *)
(* (380-411): the extraction loop of scrape_oliveyoung (186-226), the      *)
(* files save_to_files writes, the uploads and the Slack message.  The     *)
(* working directory is workdir.  A card is what one list element          *)
(* offers: nodes[n] is the node the n-th name selector finds (NoNode: no   *)
(* node) with its title attribute and inner text, and raises tells that    *)
(* handling the card raises after the name was read.  Of a product the     *)
(* rank and the title are kept.                                            *)

NAME_CANDIDATES ==
    <<".tx_name", ".prd_name", ".name", "a .name", "strong", "a[title]", ".prd_info .name">>

CardLimit == 100

\* integrated_scraper.py:72: (title or "").strip() or (inner_text or "").strip()
NodeText(node) == Or(Strip(Or(node.title, <<>>)), Strip(Or(node.inner_text, <<>>)))

\* integrated_scraper.py:66-77
extract_first_text(nodes) ==
    LET hits == {n \in 1..Len(nodes) : nodes[n].found /\ NodeText(nodes[n]) # <<>>}
    IN  IF hits = {} THEN <<>>
        ELSE NodeText(nodes[CHOOSE n \in hits : \A k \in hits : n <= k])

\* integrated_scraper.py:186-214: the cards that get an entry
CardKept(card) == extract_first_text(card.nodes) # <<>> /\ ~card.raises

\* rank = i + 1 with i the position among the first CardLimit elements
scrape_oliveyoung(cards) ==
    LET head == Take(cards, CardLimit)
        all == [i \in 1..Len(head) |->
                   [rank |-> i, title |-> extract_first_text(head[i].nodes)]]
    IN  SelectIdx(all, {i \in 1..Len(head) : CardKept(head[i])})

MaxCards == 3

NoNode == [found |-> FALSE, title |-> None, inner_text |-> None]
Node(title, inner_text) == [found |-> TRUE, title |-> title, inner_text |-> inner_text]
NoNodes == [n \in 1..Len(NAME_CANDIDATES) |-> NoNode]
CardA == [nodes |-> [NoNodes EXCEPT ![1] = Node(None, <<" ", "A">>)], raises |-> FALSE]
\* an empty first node, the name in the title attribute of the link
CardB ==
    [nodes |-> [NoNodes EXCEPT ![1] = Node(<<>>, <<" ">>), ![6] = Node(<<"B">>, <<"x">>)],
     raises |-> FALSE]
CardBanner ==
    [nodes |-> [NoNodes EXCEPT ![5] = Node(None, <<>>)], raises |-> FALSE]
CardBroken == [CardA EXCEPT !.raises = TRUE]
CardKinds == {CardA, CardB, CardBanner, CardBroken}

CardLists ==
    UNION {[1..n -> CardKinds] : n \in 0..MaxCards}
    \cup {[i \in 1..(CardLimit + 1) |-> IF i = 2 THEN CardBanner ELSE CardA]}

\* the part of the state that a run of integrated_scraper.py leaves alone
notIntegRun ==
    <<titleVars, diffVars, mainVars, rankVars, keyVars, priceVars, wonVars,
      elemVars, scrollVars, ppc, main_success, app_result, files_exist,
      latest_file>>

\* the day number of today
IntegToday == LastDay

\* what earlier runs may have left in the working directory
IntegDirs == {{}, {Name("ranking_", IntegToday - 1, ".json")}}

\* integrated_scraper.py:17-19: which of DROPBOX_ACCESS_TOKEN,
\* GOOGLE_SHEETS_CREDENTIALS and SLACK_WEBHOOK_URL are set
IntegEnvs == [dropbox : BOOLEAN, sheets : BOOLEAN, slack : BOOLEAN]

InitIntegrated ==
    /\ TitleIdle /\ DiffIdle /\ MainIdle /\ RankIdle /\ KeyIdle /\ PriceIdle /\ WonIdle /\ ElemIdle /\ ScrollIdle
    /\ ppc = "off"
    /\ workdir \in IntegDirs
    /\ main_success = FALSE
    /\ app_result = "none"
    /\ files_exist = FALSE
    /\ latest_file = None
    /\ ipc = "page"
    /\ i_cards \in CardLists
    /\ i_products = <<>>
    /\ i_env \in IntegEnvs
    /\ i_calls = <<>>
    /\ i_message = None

\* integrated_scraper.py:385
ScrapeCards ==
    /\ ipc = "page"
    /\ i_products' = scrape_oliveyoung(i_cards)
    /\ ipc' = "scraped"
    /\ UNCHANGED <<i_cards, i_env, i_calls, i_message, workdir, notIntegRun>>

\* integrated_scraper.py:387-389: main returns when nothing was collected
NoProducts ==
    /\ ipc = "scraped"
    /\ i_products = <<>>
    /\ ipc' = "done"
    /\ UNCHANGED <<i_cards, i_products, i_env, i_calls, i_message, workdir, notIntegRun>>

\* integrated_scraper.py:234-256 (called at 392): the JSON and the CSV of
\* today are written into the working directory, and the Excel file unless
\* writing it raises
save_to_files ==
    /\ ipc = "scraped"
    /\ i_products # <<>>
    /\ \E excel \in BOOLEAN :
          workdir' = workdir
                       \cup {Name("ranking_", IntegToday, ".json"),
                             Name("oliveyoung_rankings_", IntegToday, ".csv")}
                       \cup (IF excel
                             THEN {Name("oliveyoung_rankings_", IntegToday, ".xlsx")}
                             ELSE {})
    /\ ipc' = "saved"
    /\ UNCHANGED <<i_cards, i_products, i_env, i_calls, i_message, notIntegRun>>

TitleCap == 50
SlackTop == 10

\* integrated_scraper.py:357-361: the rank and the title, cut to TitleCap
\* characters and "...", of the first SlackTop rows
SlackRows(products) ==
    LET head == Take(products, SlackTop)
    IN  [j \in 1..Len(head) |->
            [rank |-> head[j].rank,
             title |-> IF Len(head[j].title) > TitleCap
                       THEN SubSeq(head[j].title, 1, TitleCap) \o <<".", ".", ".">>
                       ELSE head[j].title]]

\* integrated_scraper.py:394-411: the uploads and the message, each made when
\* its setting is present; what they return is not looked at
Publish ==
    /\ ipc = "saved"
    /\ i_calls' = (IF i_env.dropbox
                   THEN <<"upload_to_dropbox", "upload_to_dropbox">> ELSE <<>>)
                  \o (IF i_env.sheets THEN <<"upload_to_google_sheets">> ELSE <<>>)
                  \o (IF i_env.slack THEN <<"send_to_slack">> ELSE <<>>)
    /\ i_message' = IF i_env.slack THEN SlackRows(i_products) ELSE None
    /\ ipc' = "done"
    /\ UNCHANGED <<i_cards, i_products, i_env, workdir, notIntegRun>>

NextIntegrated ==
    \/ ScrapeCards
    \/ NoProducts
    \/ save_to_files
    \/ Publish

SpecIntegrated == InitIntegrated /\ [][NextIntegrated]_vars

----------------------------------------------------------------------------
(* Specification SpecPrice: the price fields of one extracted entry, on    *)
(* the structured path and on the document path.                           *)

MaxPriceLen == 3

PriceChars == {"0", "1", "7", ",", "w"}
SaleTexts == UNION {[1..n -> PriceChars] : n \in 0..MaxPriceLen}
OrgTexts ==
    {None, <<>>, <<"w">>, <<"0">>, <<"1", "0", "0">>, <<"1", ",", "0", "0", "0">>,
     <<"w", " ", "1", "0", ",", "0", "0", "0", "w">>}

NoRawPrice ==
    [price |-> None, salePrice |-> None, onlinePrice |-> None, finalPrice |-> None,
     orgPrice |-> None, originalPrice |-> None, listPrice |-> None]
NoPriceNodes == [tx_cur_num |-> None, tx_cur |-> None, tx_org_num |-> None, tx_org |-> None]

JsonPriceInputs ==
    {[NoRawPrice EXCEPT !.price = s, !.finalPrice = f, !.orgPrice = o] :
        s \in SaleTexts \cup {None}, f \in {None, <<"7", "0">>}, o \in OrgTexts}
    \cup {[NoRawPrice EXCEPT !.onlinePrice = s, !.listPrice = o] :
             s \in {<<"7", "1", "0">>}, o \in OrgTexts}
HtmlPriceInputs ==
    {[NoPriceNodes EXCEPT !.tx_cur_num = s, !.tx_cur = c, !.tx_org_num = o] :
        s \in SaleTexts \cup {None}, c \in {None, <<"7", "0", "w">>}, o \in OrgTexts}
    \cup {[NoPriceNodes EXCEPT !.tx_cur = s, !.tx_org = o] :
             s \in {<<"7", "1", "0">>}, o \in OrgTexts}

InitPrice ==
    /\ TitleIdle /\ DiffIdle /\ MainIdle /\ RankIdle /\ KeyIdle /\ PipeIdle /\ WonIdle /\ ElemIdle /\ ScrollIdle /\ IntegIdle
    /\ vpc = "input"
    /\ \/ price_path = "json" /\ json_raw \in JsonPriceInputs /\ html_raw = None
       \/ price_path = "html" /\ html_raw \in HtmlPriceInputs /\ json_raw = None
    /\ price_entry = None

ExtractJsonPrices ==
    /\ vpc = "input"
    /\ price_path = "json"
    /\ price_entry' = JsonPrices(json_raw)
    /\ vpc' = "extracted"
    /\ UNCHANGED <<price_path, json_raw, html_raw, notPrice>>

ExtractHtmlPrices ==
    /\ vpc = "input"
    /\ price_path = "html"
    /\ price_entry' = HtmlPrices(html_raw)
    /\ vpc' = "extracted"
    /\ UNCHANGED <<price_path, json_raw, html_raw, notPrice>>

NextPrice == ExtractJsonPrices \/ ExtractHtmlPrices

SpecPrice == InitPrice /\ [][NextPrice]_vars

----------------------------------------------------------------------------
(* Specification SpecWon: parse_won_to_int (app.py:62-71) applied to a     *)
(* text.                                                                   *)

MaxWonLen == 4

WonChars == {"0", "1", "5", "<U+FF11>", ",", " ", "w"}
WonTexts == UNION {[1..n -> WonChars] : n \in 0..MaxWonLen}

InitWon ==
    /\ TitleIdle /\ DiffIdle /\ MainIdle /\ RankIdle /\ KeyIdle /\ PipeIdle /\ PriceIdle /\ ElemIdle /\ ScrollIdle /\ IntegIdle
    /\ wpc = "input"
    /\ won_text \in WonTexts \cup {None}
    /\ won_value = NoPrice

ParseWon ==
    /\ wpc = "input"
    /\ won_value' = parse_won_to_int(won_text)
    /\ wpc' = "parsed"
    /\ UNCHANGED <<won_text, notWon>>

NextWon == ParseWon

SpecWon == InitWon /\ [][NextWon]_vars

----------------------------------------------------------------------------
(* Specification SpecTitle: clean_title applied to a raw title, then to    *)
(* its own result.                                                         *)

MaxTok == 4

TitleTokens ==
    { <<" ">>, <<"\n">>, <<"<U+3000>">>, <<"[">>, <<"]">>, <<"|">>, <<"-">>, KwPick,
      <<"p", "<U+0131>", "c", "<U+212A>">>, KwTeukga, <<"x">> }

RECURSIVE Concat(_)
Concat(ts) == IF ts = <<>> THEN <<>> ELSE Head(ts) \o Concat(Tail(ts))

RawTitles ==
    { Concat(ts) : ts \in UNION { [1..n -> TitleTokens] : n \in 0..MaxTok } }

InitTitle ==
    /\ DiffIdle /\ MainIdle /\ RankIdle /\ KeyIdle /\ PipeIdle /\ PriceIdle /\ WonIdle /\ ElemIdle /\ ScrollIdle /\ IntegIdle
    /\ tpc = "raw"
    /\ raw_title \in RawTitles
    /\ once_title = None
    /\ twice_title = None

CleanOnce ==
    /\ tpc = "raw"
    /\ once_title' = clean_title(raw_title)
    /\ tpc' = "once"
    /\ UNCHANGED <<raw_title, twice_title, notTitle>>

CleanTwice ==
    /\ tpc = "once"
    /\ twice_title' = clean_title(once_title)
    /\ tpc' = "twice"
    /\ UNCHANGED <<raw_title, once_title, notTitle>>

NextTitle == CleanOnce \/ CleanTwice

SpecTitle == InitTitle /\ [][NextTitle]_vars

----------------------------------------------------------------------------
(* Properties.                                                             *)

Called(op) == \E i \in 1..Len(calls) : calls[i] = op
Min(a, b) == IF a < b THEN a ELSE b
Distinct(ks) == \A i, j \in 1..Len(ks) : i # j => ks[i] # ks[j]

\* C1 (SpecRank): the ranked snapshot is the first min(n, 100) items of the
\* list handed to the rank assignment, in their order, and the item at
\* position i has rank i, whatever rank it carried before.
C1_RanksArePositions ==
    rpc = "ranked" =>
        LET m == Min(Len(ranked_given), MAX_ITEMS)
        IN  /\ Len(ranked_out) = m
            /\ \A i \in 1..m : ranked_out[i] = [ranked_given[i] EXCEPT !.rank = i]
            /\ {ranked_out[i].rank : i \in 1..m} = 1..m

\* a list longer than the maximum, carrying other ranks, has been ranked
C1_Witness ==
    /\ rpc = "ranked"
    /\ Len(ranked_given) > MAX_ITEMS
    /\ ranked_given[1].rank = MAX_ITEMS + 1
    /\ Len(ranked_out) = MAX_ITEMS
    /\ ranked_out[MAX_ITEMS].rank = MAX_ITEMS
    /\ ranked_in = ranked_out

\* C2 (Spec): the stable keys of the entries of the snapshot a run produces
\* are pairwise distinct, and the entries are the first occurrences of the
\* keys of the acquired records, in order.
C2_StableKeysDistinct ==
    pc = "ranked" =>
        /\ Distinct(MapKeys(items_filled))
        /\ MapKeys(items_filled) = Take(DictOrder(MapKeys(main_items.list)), MAX_ITEMS)

\* C3 (Spec): once the probe has returned a non-empty result of fewer than
\* five items, main goes on only after try_playwright_render has been called.
C3_SmallProbeTriggersFallback ==
    (/\ pc \notin {"probe", "probed"}
     /\ ~probe_result.none
     /\ 0 < Len(probe_result.list)
     /\ Len(probe_result.list) < 5) => Called("try_playwright_render")

\* C4 (Spec): when the probe and the fallback both yielded no items, the run
\* writes neither the local CSV nor a Drive file, goes nowhere but to the
\* return of main, and main returns 1 after one failure notification.
C4_BothEmptyFails ==
    (/\ Called("try_playwright_render")
     /\ probe_result.list = <<>>
     /\ fallback_result.list = <<>>) =>
        /\ writes = {}
        /\ pc \in {"rendered", "returned"}
        /\ items_filled = <<>>
        /\ pc = "returned" => exit_code = 1 /\ slack_calls = <<"scraping failed">>
        /\ pc = "rendered" => exit_code = Running /\ slack_calls = <<>>

\* the rendered page held no product and main has returned 1; the files of
\* earlier runs are still there
C4_Witness ==
    /\ pc = "returned"
    /\ exit_code = 1
    /\ probe_result = NoList
    /\ fallback_result = AList(<<>>)
    /\ slack_calls = <<"scraping failed">>
    /\ drive_files # <<>>
    /\ writes = {}

\* C5 (SpecDiff): a snapshot compared to itself by build_slack_message_kor
\* has no risers, no fallers, no new entrants, no dropouts and churn 0.
C5_SelfDiffEmpty ==
    (dpc = "message" /\ d_prev = d_today) =>
        /\ ~d_report.raised
        /\ d_report.ups = <<>>
        /\ d_report.downs = <<>>
        /\ d_report.newcomers = <<>>
        /\ d_report.outs = <<>>
        /\ d_report.inout_count = 0

\* a full snapshot has been compared to itself
C5_Witness ==
    /\ dpc = "message"
    /\ d_prev = d_today
    /\ Len(d_today) = MAX_ITEMS
    /\ ~d_report.raised
    /\ Len(d_report.top10) = TopLines

\* C6 (SpecDiff): with an empty previous list the diff has no risers, no
\* fallers, no new entrants and no dropouts, for every current snapshot.
C6_NoPreviousAllEmpty ==
    (dpc = "message" /\ d_prev = <<>>) =>
        /\ ~d_report.raised
        /\ d_report.ups = <<>>
        /\ d_report.downs = <<>>
        /\ d_report.newcomers = <<>>
        /\ d_report.outs = <<>>

\* the rank the previous list gives a key, and the key of the entry at a rank
PrevRankOf(k) == RankOfKey(d_prev, MapKeys(d_prev), k)
HasEntry(list, t, delta) ==
    \E i \in 1..Len(list) :
        /\ list[i].rank = t.rank
        /\ list[i].prev_rank = PrevRankOf(_oy_key(t))
        /\ list[i].change = delta

\* C7 (SpecDiff): for every key in both the current and the previous
\* snapshot, with delta = previous rank - current rank, the entry is among the
\* risers iff delta >= 10 and among the fallers iff delta <= -10, and the
\* change reported for it is delta.
C7_RisersAndFallers ==
    dpc = "message" =>
        \A i \in 1..Len(d_today) :
            LET t == d_today[i]
                delta == PrevRankOf(_oy_key(t)) - t.rank
            IN  _oy_key(t) \in Range(MapKeys(d_prev)) =>
                  /\ ~d_report.raised
                  /\ (delta >= 10) <=> HasEntry(d_report.ups, t, delta)
                  /\ (delta <= 0 - 10) <=> HasEntry(d_report.downs, t, delta)
                  /\ \A j \in 1..Len(d_report.ups) :
                        d_report.ups[j].rank = t.rank => d_report.ups[j].change = delta
                  /\ \A j \in 1..Len(d_report.downs) :
                        d_report.downs[j].rank = t.rank => d_report.downs[j].change = delta

\* the previous keys ranked within 1..100 that the current snapshot lacks
Dropped ==
    {k \in Range(MapKeys(d_prev)) \ {<<>>} :
        /\ 1 <= PrevRankOf(k)
        /\ PrevRankOf(k) <= 100
        /\ k \notin Range(MapKeys(d_today))}

\* C8 (SpecDiff): the dropouts are exactly the previous keys ranked within
\* 1..100 that are absent from the current snapshot, each with its previous
\* rank.
C8_Dropouts ==
    dpc = "message" =>
        /\ ~d_report.raised
        /\ Len(d_report.outs) = Cardinality(Dropped)
        /\ {d_report.outs[i].rank : i \in 1..Len(d_report.outs)}
             = {PrevRankOf(k) : k \in Dropped}

\* half the symmetric difference of the current and the previous keys within
\* the first w ranks
Churn(w) ==
    LET cur == {_oy_key(d_today[i]) : i \in {j \in 1..Len(d_today) : d_today[j].rank <= w}}
        prv == {k \in Range(MapKeys(d_prev)) : 1 <= PrevRankOf(k) /\ PrevRankOf(k) <= w}
    IN  Cardinality((cur \ prv) \cup (prv \ cur)) \div 2

\* C9 (SpecDiff): the churn count of build_slack_message_kor (window 100) and
\* that of analyze_trends (its window) are half the size of the symmetric
\* difference of the current and the previous keys within the window.
C9_ChurnIsHalfSymmetricDifference ==
    /\ dpc = "message" =>
          ~d_report.raised /\ d_report.inout_count = Churn(OutWindow)
    /\ dpc = "trends" => d_trend.in_out_count = Churn(d_trend.top_window)

\* C10 (SpecTitle): cleaning a cleaned title changes nothing.
C10_CleanTitleIdempotent == tpc = "twice" => twice_title = once_title

\* C11 (Spec): the keys resolved from the rows a next run loads back from the
\* file this run uploaded are the keys resolved from the entries of the
\* snapshot at acquisition time.
C11_KeySurvivesStore ==
    (pc = "uploaded" /\ "drive" \in writes) =>
        MapKeys(PrevItems(drive_files[Len(drive_files)])) = MapKeys(items_filled)

\* the goodsNo identifier the query of an entry's url carries (<<>>: none)
GoodsNoOf(it) == _oy_goodsno_from_url(Strip(Or(it.url, <<>>)))

\* C12 (SpecKey): two entries with equal url, name and raw_name resolve to
\* the same key, and two entries whose urls carry the same non-empty goodsNo
\* resolve to the same key, "g:" and that identifier, whatever their names.
C12_KeyPrefersIdentifier ==
    kpc = "resolved" =>
        /\ (k_a.url = k_b.url /\ k_a.name = k_b.name /\ k_a.raw_name = k_b.raw_name)
              => key_a = key_b
        /\ (GoodsNoOf(k_a) # <<>> /\ GoodsNoOf(k_a) = GoodsNoOf(k_b))
              => key_a = key_b /\ key_a = <<"g", ":">> \o GoodsNoOf(k_a)

\* two entries with different names and different urls of the same goodsNo
\* have been resolved to one key
C12_Witness ==
    /\ kpc = "resolved"
    /\ k_a.url # k_b.url
    /\ k_a.name = <<"A">>
    /\ k_b.name = <<"<U+3000>", "B", " ">>
    /\ GoodsNoOf(k_a) = <<"B">>
    /\ key_a = <<"g", ":", "B">>
    /\ key_b = key_a

\* C13 (Spec): once a run has saved and uploaded its snapshot, the rankings
\* directory and the Drive folder each hold exactly one file of today's
\* name, and its content is the snapshot of this run, also when an earlier
\* run of the same day left a file.
C13_ReplaceByDate ==
    (pc = "uploaded" /\ "drive" \in writes) =>
        /\ {f \in local_files : f.name = Today} = {File(Today, CsvRows(items_filled))}
        /\ Cardinality({i \in 1..Len(drive_files) : drive_files[i].name = Today}) = 1
        /\ \A i \in 1..Len(drive_files) :
              drive_files[i].name = Today => drive_files[i].rows = CsvRows(items_filled)

\* C14 (Spec): a run whose acquisition yielded items does not stop before it
\* has saved the snapshot, handed the trend message to send_slack_text and
\* returned 0.
C14_RunCompletes ==
    (pc \in {"returned", "raised"} /\ ~Falsy(main_items)) =>
        /\ pc = "returned"
        /\ exit_code = 0
        /\ "local" \in writes
        /\ Called("send_slack_text")

\* C15 (SpecPipeline): after main.py has run with status 0 and app.py has
\* saved its snapshot, the working directory holds a file ranking_<date>.json.
C15_RankingJsonLeft ==
    (ppc \in {"check_files", "slack.py", "done"} /\ main_success
        /\ app_result = "saved, TypeError") =>
        \E f \in workdir : IsRankingJson(f)

\* C16 (SpecPrice): on both paths an entry has a discount_pct iff both prices
\* are known and original_price > sale_price > 0, and then it is
\* floor((original_price - sale_price) * 100 / original_price), within 0..100.
C16_DiscountPct ==
    vpc = "extracted" =>
        LET o == price_entry.original_price
            s == price_entry.sale_price
            pct == price_entry.discount_pct
        IN  /\ (pct # NoPrice) <=> (o # NoPrice /\ s # NoPrice /\ o > s /\ s > 0)
            /\ pct # NoPrice => pct = ((o - s) * 100) \div o /\ pct \in 0..100

\* the digits of a text, in order
AllDigits(s) == IF s = None THEN <<>> ELSE SelectSeq(s, IsDigit)

\* C17 (SpecWon): parse_won_to_int returns None exactly for a text without a
\* digit, and otherwise the integer written by the digits of the text once
\* every other character is removed.
C17_ParseWon ==
    wpc = "parsed" =>
        IF AllDigits(won_text) = <<>> THEN won_value = NoPrice
        ELSE won_value = DigitsToInt(AllDigits(won_text))

\* the current keys without an entry in the previous list
Fresh == (Range(MapKeys(d_today)) \ {<<>>}) \ Range(MapKeys(d_prev))

\* C18 (SpecDiff): the new entrants are exactly the current keys that are
\* absent from the previous snapshot, one entry for each at its current rank.
C18_NewEntrants ==
    dpc = "message" =>
        /\ ~d_report.raised
        /\ Len(d_report.newcomers) = Cardinality(Fresh)
        /\ {d_report.newcomers[i].rank : i \in 1..Len(d_report.newcomers)}
             = {RankOfKey(d_today, MapKeys(d_today), k) : k \in Fresh}

\* C19 (Spec): the first call of a run is try_http_candidates;
\* try_playwright_render is called only after the probe has returned no
\* result, and never in a run whose probe returned items.
C19_ProbeBeforeFallback ==
    /\ calls # <<>> => calls[1] = "try_http_candidates"
    /\ Called("try_playwright_render") =>
          /\ Falsy(probe_result)
          /\ Len(calls) >= 2
          /\ calls[2] = "try_playwright_render"
          /\ \A i \in 1..Len(calls) : calls[i] = "try_playwright_render" => i = 2
    /\ (Called("try_http_candidates") /\ ~Falsy(probe_result)) =>
          ~Called("try_playwright_render") /\ fallback_result = NoList

\* the probe returned nothing, the fallback was called next and its items
\* were ranked
C19_Witness ==
    /\ pc = "ranked"
    /\ calls = <<"try_http_candidates", "try_playwright_render", "fill_ranks_and_fix">>
    /\ probe_result = NoList
    /\ items_filled # <<>>

\* C20 (Spec): try_http_candidates requests its targets in list order; a
\* target is requested only while every earlier one yielded nothing (a
\* non-200 answer and a failed request yield nothing); the probe returns
\* items exactly when the last target requested yielded them, and None only
\* after the whole list has been requested.
C20_CandidatesInOrder ==
    LET n == Len(requested) IN
    /\ n <= NumCandidates
    /\ \A i \in 1..n : requested[i].target = i
    /\ \A i \in 1..(n - 1) : requested[i].outcome = "nothing"
    /\ (n > 0 /\ last_kind \in {"status", "error"}) => requested[n].outcome = "nothing"
    /\ pc = "probe" =>
          /\ cand = n + 1
          /\ \A i \in 1..n : requested[i].outcome = "nothing"
          /\ ~Called("try_http_candidates")
    /\ pc # "probe" /\ pc # "off" =>
          /\ n > 0
          /\ IF requested[n].outcome = "items"
             THEN ~Falsy(probe_result) /\ last_kind \in {"json", "html"}
             ELSE probe_result = NoList /\ n = NumCandidates

\* the third target was the first to yield items and the probe returned them
C20_Witness ==
    /\ pc = "probed"
    /\ Len(requested) = 3
    /\ requested[2].outcome = "nothing"
    /\ requested[3].outcome = "items"
    /\ Len(probe_result.list) = MAX_ITEMS

\* a run that ended without a result: the failure exit or an uncaught exception
Fatal == (pc = "returned" /\ exit_code = 1) \/ pc = "raised"

\* C21 (Spec): an error while handling one probe target yields nothing for
\* that target and the next target is still tried; the fallback never raises
\* but returns a list or None; and a run ends fatally only when both
\* strategies returned no result.
C21_OnlyExhaustionIsFatal ==
    /\ (last_kind = "error" /\ Len(requested) < NumCandidates) =>
          /\ pc = "probe"
          /\ cand = Len(requested) + 1
          /\ requested[Len(requested)].outcome = "nothing"
    /\ (last_kind = "error" /\ Len(requested) = NumCandidates) =>
          (pc # "probe" /\ probe_result = NoList)
    /\ Called("try_playwright_render") =>
          /\ pc \notin {"probe", "probed"}
          /\ pc = "rendered" => main_items = fallback_result
          /\ ~playwright => fallback_result = NoList
    /\ Fatal =>
          /\ Falsy(probe_result)
          /\ Called("try_playwright_render")
          /\ Falsy(fallback_result)

\* the keys both snapshots hold whose rank moved by less than the threshold,
\* given the keys of today's entries and of the previous ones
SmallMovesOf(tks, pks) ==
    {k \in (Range(tks) \cap Range(pks)) \ {<<>>} :
        Abs(RankOfKey(d_prev, pks, k) - RankOfKey(d_today, tks, k)) < 10}

RanksIn(list) == {list[i].rank : i \in 1..Len(list)}

\* a key of both snapshots is in none of the four lists of the report
Unclassified(tks, pks, k) ==
    /\ RankOfKey(d_today, tks, k) \notin RanksIn(d_report.ups)
    /\ RankOfKey(d_today, tks, k) \notin RanksIn(d_report.downs)
    /\ RankOfKey(d_today, tks, k) \notin RanksIn(d_report.newcomers)
    /\ \A i \in 1..Len(d_report.outs) :
          ~(d_report.outs[i].rank = RankOfKey(d_prev, pks, k)
              /\ d_report.outs[i].url = UrlOfKey(d_prev, pks, k))

AllUnclassified(tks, pks) == \A k \in SmallMovesOf(tks, pks) : Unclassified(tks, pks, k)

\* C22 (SpecDiff): in every result of build_slack_message_kor no entry is
\* both a riser and a faller, and a key of both snapshots whose rank moved by
\* less than 10 (0 included) is in none of risers, fallers, new entrants and
\* dropouts.
C22_SmallMovesUnclassified ==
    (dpc = "message" /\ ~d_report.raised) =>
        /\ RanksIn(d_report.ups) \cap RanksIn(d_report.downs) = {}
        /\ AllUnclassified(MapKeys(d_today), MapKeys(d_prev))

\* some key kept its rank and some key moved by less than the threshold
HasSmallMoves(tks, pks) ==
    /\ \E k \in SmallMovesOf(tks, pks) : RankOfKey(d_prev, pks, k) = RankOfKey(d_today, tks, k)
    /\ \E k \in SmallMovesOf(tks, pks) : RankOfKey(d_prev, pks, k) # RankOfKey(d_today, tks, k)

\* a result with risers and fallers, a key that kept its rank and a key that
\* moved by less than the threshold
C22_Witness ==
    /\ dpc = "message"
    /\ ~d_report.raised
    /\ d_report.ups # <<>>
    /\ d_report.downs # <<>>
    /\ HasSmallMoves(MapKeys(d_today), MapKeys(d_prev))

\* an entry with neither a name nor a link
Unusable(e) == ~Truthy(e.name) /\ ~Truthy(e.raw_name) /\ ~Truthy(e.url)

\* C23 (Spec): no entry returned by the probe (structured or document path)
\* or by the fallback has both an empty or missing name and an empty or
\* missing url.
C23_NoUnusableEntry ==
    /\ ~probe_result.none =>
          \A i \in 1..Len(probe_result.list) : ~Unusable(probe_result.list[i])
    /\ ~fallback_result.none =>
          \A i \in 1..Len(fallback_result.list) : ~Unusable(fallback_result.list[i])

\* the first candidate text that is not empty ("" when there is none)
FirstText(texts) ==
    LET hits == {i \in 1..Len(texts) : Truthy(texts[i])}
    IN  IF hits = {} THEN <<>> ELSE texts[CHOOSE i \in hits : \A j \in hits : i <= j]

\* C24 (SpecElement): each field of an entry of parse_html_products comes
\* from the first candidate selector, in list order, whose node has non-empty
\* text: the name, the two prices, the brand (the brand derived from the
\* cleaned name when no brand candidate has text) and the link.
C24_FirstNonEmptyCandidate ==
    epc = "appended" =>
        /\ e_entry.raw_name = FirstText(e_el.names)
        /\ e_entry.sale_price
             = parse_won_to_int(FirstText(<<e_el.tx_cur_num, e_el.tx_cur>>))
        /\ e_entry.original_price
             = parse_won_to_int(FirstText(<<e_el.tx_org_num, e_el.tx_org>>))
        /\ e_entry.brand
             = IF FirstText(<<e_el.tx_brand, e_el.brand>>) # <<>>
               THEN FirstText(<<e_el.tx_brand, e_el.brand>>)
               ELSE extract_brand_from_name(e_entry.name)
        /\ e_entry.url
             = IF StartsWithSlash(e_el.href) THEN <<Origin>> \o e_el.href ELSE e_el.href

\* main is past the lookup and load of the previous snapshot
PrevLoaded == pc \in {"loaded", "raised"}

\* C25 (Spec): within a run the previous snapshot is looked up and loaded
\* before today's snapshot is written, locally or to Drive: while the lookup
\* is still to come nothing has been written.
C25_ReadBeforeWrite ==
    writes # {} => PrevLoaded

\* the positions of the Drive files not named like today's
NotTodays == {i \in 1..Len(drive_files) : drive_files[i].name # Today}

\* C26 (Spec): when the store holds no file of yesterday's name but a file
\* whose name is not today's, and no request fails, main loads as previous
\* the most recently created file not named like today's, however many files
\* of today's name the store holds.
C26_BackupIsLatestNotToday ==
    (/\ PrevLoaded
     /\ drive_on
     /\ prev_lookup # "failed"
     /\ find_csv_by_exact_name(drive_files, Yesterday) = {}
     /\ NotTodays # {}) =>
        LET i == CHOOSE i \in NotTodays : \A j \in NotTodays : j <= i
        IN  /\ prev_lookup = "backup"
            /\ main_prev = AList(PrevItems(drive_files[i]))

\* C27 (SpecScroll): smart_scroll makes at most max_rounds passes and none
\* after the first pass that saw the height unchanged; scroll_to_bottom makes
\* at most max_scroll_attempts passes; a loop that has not ended has passes
\* left, so both end whatever the page reports.
C27_ScrollLoopsBounded ==
    /\ s_fn = "smart_scroll" =>
          /\ s_iter <= max_rounds
          /\ s_late = 0
          /\ s_stable => spc = "done"
          /\ spc = "loop" => s_iter < max_rounds
    /\ s_fn = "scroll_to_bottom" =>
          /\ s_iter <= max_scroll_attempts
          /\ spc = "loop" => s_iter < max_scroll_attempts

\* smart_scroll ended at its third pass, the first to see the height unchanged
C27_Witness ==
    /\ s_fn = "smart_scroll"
    /\ spc = "done"
    /\ s_iter = 3
    /\ s_stable

\* C28 (Spec): when a rendered-page attempt yields no result the fallback
\* runs its navigate-and-extract sequence again, so it reports no result
\* only after more than one attempt.
C28_FallbackRetries ==
    (Called("try_playwright_render") /\ playwright /\ Falsy(fallback_result)) =>
        render_attempts > 1

\* C29 (SpecDiff): every riser and every faller build_slack_message_kor
\* reports has a previous rank of at least 1; a previous record without a
\* rank (kept as 0) is not reported as a rank movement.
C29_MoversHaveValidPrevRank ==
    (dpc = "message" /\ ~d_report.raised) =>
        /\ \A i \in 1..Len(d_report.ups) : d_report.ups[i].prev_rank >= 1
        /\ \A i \in 1..Len(d_report.downs) : d_report.downs[i].prev_rank >= 1

\* C30 (SpecIntegrated): the ranks of the products scrape_oliveyoung returns
\* are 1..N in sequence order, also when elements were skipped.
C30_IntegratedRanksContiguous ==
    ipc = "scraped" =>
        \A j \in 1..Len(i_products) : i_products[j].rank = j

====
